---- MODULE Spec2Model ----
(***************************************************************************)
(* Safety-and-execution kernel of the Supabase MCP gateway: SQL validator  *)
(* and classifier, safety manager with confirmation store, query manager   *)
(* and API manager.                                                        *)
(***************************************************************************)
EXTENDS Integers, Sequences, FiniteSets, TLC

(***************************************************************************)
(* Risk and mode model (services/safety/models.py)                         *)
(***************************************************************************)
LOW == 1
MEDIUM == 2
HIGH == 3
EXTREME == 4
OperationRiskLevel == {LOW, MEDIUM, HIGH, EXTREME}

SAFE == "safe"
UNSAFE == "unsafe"
SafetyMode == {SAFE, UNSAFE}

DATABASE == "database"
API == "api"
ClientType == {DATABASE, API}

(***************************************************************************)
(* Bounds of the model                                                     *)
(***************************************************************************)
\* the clock is observed up to MaxTime seconds after the start
MaxTime == 301
\* the instants at which the clock is read: the start, and the instants around
\* the expiry of a confirmation created at the start or one second before it ends
Instants == {t \in {0, 300, 301, 302, 601, 602} : t <= MaxTime}
\* values uuid4().hex[:8] is drawn from
Tokens == {"conf_1", "conf_2"}
\* concurrent request slots
Req == {"r1"}

(***************************************************************************)
(* SQL classification (services/safety/safety_configs.py, SQLSafetyConfig) *)
(***************************************************************************)
\* the pglast parser: statement text -> parse-tree node (class name, COPY direction);
\* a query text is modelled as the sequence of its segments between semicolons,
\* so <<"SELECT 1">> is "SELECT 1" and <<"SELECT 1", "">> is "SELECT 1;"
ParseStmt(text) ==
  CASE text = "SELECT 1"                 -> [type |-> "SelectStmt", is_from |-> FALSE]
    [] text = "INSERT INTO t VALUES (1)" -> [type |-> "InsertStmt", is_from |-> FALSE]
    [] text = "CREATE TABLE t (id int)"  -> [type |-> "CreateStmt", is_from |-> FALSE]
    [] text = "DROP TABLE t"             -> [type |-> "DropStmt", is_from |-> FALSE]
    [] text = "TRUNCATE t"               -> [type |-> "TruncateStmt", is_from |-> FALSE]
    [] text = "COPY t TO STDOUT"         -> [type |-> "CopyStmt", is_from |-> FALSE]
    [] text = "COPY t FROM STDIN"        -> [type |-> "CopyStmt", is_from |-> TRUE]
    [] text = "CALL p()"                 -> [type |-> "CallStmt", is_from |-> FALSE]
    [] text = "CREATE SCHEMA IF NOT EXISTS supabase_migrations"
                                         -> [type |-> "CreateSchemaStmt", is_from |-> FALSE]
    [] text = "CREATE TABLE IF NOT EXISTS supabase_migrations.schema_migrations"
                                         -> [type |-> "CreateStmt", is_from |-> FALSE]
    [] text = "INSERT INTO supabase_migrations.schema_migrations"
                                         -> [type |-> "InsertStmt", is_from |-> FALSE]
    [] text = "BEGIN"                    -> [type |-> "TransactionStmt", is_from |-> FALSE]
    [] text = "COMMIT"                   -> [type |-> "TransactionStmt", is_from |-> FALSE]
    [] text = "ROLLBACK"                 -> [type |-> "TransactionStmt", is_from |-> FALSE]
    [] text = "SAVEPOINT s"              -> [type |-> "TransactionStmt", is_from |-> FALSE]
    [] OTHER                             -> [type |-> "ParseError", is_from |-> FALSE]

STATEMENT_CONFIG ==
  [
    SelectStmt |-> [category |-> "DQL", risk_level |-> LOW, needs_migration |-> FALSE],
    ExplainStmt |-> [category |-> "POSTGRES_SPECIFIC", risk_level |-> LOW, needs_migration |-> FALSE],
    InsertStmt |-> [category |-> "DML", risk_level |-> MEDIUM, needs_migration |-> FALSE],
    UpdateStmt |-> [category |-> "DML", risk_level |-> MEDIUM, needs_migration |-> FALSE],
    DeleteStmt |-> [category |-> "DML", risk_level |-> MEDIUM, needs_migration |-> FALSE],
    MergeStmt |-> [category |-> "DML", risk_level |-> MEDIUM, needs_migration |-> FALSE],
    CreateStmt |-> [category |-> "DDL", risk_level |-> MEDIUM, needs_migration |-> TRUE],
    CreateTableAsStmt |-> [category |-> "DDL", risk_level |-> MEDIUM, needs_migration |-> TRUE],
    CreateSchemaStmt |-> [category |-> "DDL", risk_level |-> MEDIUM, needs_migration |-> TRUE],
    CreateExtensionStmt |-> [category |-> "DDL", risk_level |-> MEDIUM, needs_migration |-> TRUE],
    AlterTableStmt |-> [category |-> "DDL", risk_level |-> MEDIUM, needs_migration |-> TRUE],
    AlterDomainStmt |-> [category |-> "DDL", risk_level |-> MEDIUM, needs_migration |-> TRUE],
    CreateFunctionStmt |-> [category |-> "DDL", risk_level |-> MEDIUM, needs_migration |-> TRUE],
    IndexStmt |-> [category |-> "DDL", risk_level |-> MEDIUM, needs_migration |-> TRUE],
    CreateTrigStmt |-> [category |-> "DDL", risk_level |-> MEDIUM, needs_migration |-> TRUE],
    ViewStmt |-> [category |-> "DDL", risk_level |-> MEDIUM, needs_migration |-> TRUE],
    CommentStmt |-> [category |-> "DDL", risk_level |-> MEDIUM, needs_migration |-> TRUE],
    CreateEnumStmt |-> [category |-> "DDL", risk_level |-> MEDIUM, needs_migration |-> TRUE],
    CreateTypeStmt |-> [category |-> "DDL", risk_level |-> MEDIUM, needs_migration |-> TRUE],
    CreateDomainStmt |-> [category |-> "DDL", risk_level |-> MEDIUM, needs_migration |-> TRUE],
    CreateSeqStmt |-> [category |-> "DDL", risk_level |-> MEDIUM, needs_migration |-> TRUE],
    CreateForeignTableStmt |-> [category |-> "DDL", risk_level |-> MEDIUM, needs_migration |-> TRUE],
    CreatePolicyStmt |-> [category |-> "DDL", risk_level |-> MEDIUM, needs_migration |-> TRUE],
    CreateCastStmt |-> [category |-> "DDL", risk_level |-> MEDIUM, needs_migration |-> TRUE],
    CreateOpClassStmt |-> [category |-> "DDL", risk_level |-> MEDIUM, needs_migration |-> TRUE],
    CreateOpFamilyStmt |-> [category |-> "DDL", risk_level |-> MEDIUM, needs_migration |-> TRUE],
    AlterEnumStmt |-> [category |-> "DDL", risk_level |-> MEDIUM, needs_migration |-> TRUE],
    AlterSeqStmt |-> [category |-> "DDL", risk_level |-> MEDIUM, needs_migration |-> TRUE],
    AlterOwnerStmt |-> [category |-> "DDL", risk_level |-> MEDIUM, needs_migration |-> TRUE],
    AlterObjectSchemaStmt |-> [category |-> "DDL", risk_level |-> MEDIUM, needs_migration |-> TRUE],
    RenameStmt |-> [category |-> "DDL", risk_level |-> MEDIUM, needs_migration |-> TRUE],
    DropStmt |-> [category |-> "DDL", risk_level |-> HIGH, needs_migration |-> TRUE],
    TruncateStmt |-> [category |-> "DDL", risk_level |-> HIGH, needs_migration |-> TRUE],
    GrantStmt |-> [category |-> "DCL", risk_level |-> MEDIUM, needs_migration |-> TRUE],
    GrantRoleStmt |-> [category |-> "DCL", risk_level |-> MEDIUM, needs_migration |-> TRUE],
    RevokeStmt |-> [category |-> "DCL", risk_level |-> MEDIUM, needs_migration |-> TRUE],
    RevokeRoleStmt |-> [category |-> "DCL", risk_level |-> MEDIUM, needs_migration |-> TRUE],
    CreateRoleStmt |-> [category |-> "DCL", risk_level |-> MEDIUM, needs_migration |-> TRUE],
    AlterRoleStmt |-> [category |-> "DCL", risk_level |-> MEDIUM, needs_migration |-> TRUE],
    DropRoleStmt |-> [category |-> "DCL", risk_level |-> HIGH, needs_migration |-> TRUE],
    TransactionStmt |-> [category |-> "TCL", risk_level |-> LOW, needs_migration |-> FALSE],
    VacuumStmt |-> [category |-> "POSTGRES_SPECIFIC", risk_level |-> MEDIUM, needs_migration |-> FALSE],
    AnalyzeStmt |-> [category |-> "POSTGRES_SPECIFIC", risk_level |-> LOW, needs_migration |-> FALSE],
    ClusterStmt |-> [category |-> "POSTGRES_SPECIFIC", risk_level |-> MEDIUM, needs_migration |-> FALSE],
    CheckPointStmt |-> [category |-> "POSTGRES_SPECIFIC", risk_level |-> MEDIUM, needs_migration |-> FALSE],
    PrepareStmt |-> [category |-> "POSTGRES_SPECIFIC", risk_level |-> LOW, needs_migration |-> FALSE],
    ExecuteStmt |-> [category |-> "POSTGRES_SPECIFIC", risk_level |-> MEDIUM, needs_migration |-> FALSE],
    DeallocateStmt |-> [category |-> "POSTGRES_SPECIFIC", risk_level |-> LOW, needs_migration |-> FALSE],
    ListenStmt |-> [category |-> "POSTGRES_SPECIFIC", risk_level |-> LOW, needs_migration |-> FALSE],
    NotifyStmt |-> [category |-> "POSTGRES_SPECIFIC", risk_level |-> MEDIUM, needs_migration |-> FALSE]
  ]

CommandMapping ==
  [
    SelectStmt |-> "SELECT",
    InsertStmt |-> "INSERT",
    UpdateStmt |-> "UPDATE",
    DeleteStmt |-> "DELETE",
    MergeStmt |-> "MERGE",
    CreateStmt |-> "CREATE",
    CreateTableAsStmt |-> "CREATE",
    CreateSchemaStmt |-> "CREATE",
    CreateExtensionStmt |-> "CREATE",
    CreateFunctionStmt |-> "CREATE",
    CreateTrigStmt |-> "CREATE",
    ViewStmt |-> "CREATE",
    IndexStmt |-> "CREATE",
    CreateEnumStmt |-> "CREATE",
    CreateTypeStmt |-> "CREATE",
    CreateDomainStmt |-> "CREATE",
    CreateSeqStmt |-> "CREATE",
    CreateForeignTableStmt |-> "CREATE",
    CreatePolicyStmt |-> "CREATE",
    CreateCastStmt |-> "CREATE",
    CreateOpClassStmt |-> "CREATE",
    CreateOpFamilyStmt |-> "CREATE",
    AlterTableStmt |-> "ALTER",
    AlterDomainStmt |-> "ALTER",
    AlterEnumStmt |-> "ALTER",
    AlterSeqStmt |-> "ALTER",
    AlterOwnerStmt |-> "ALTER",
    AlterObjectSchemaStmt |-> "ALTER",
    DropStmt |-> "DROP",
    TruncateStmt |-> "TRUNCATE",
    CommentStmt |-> "COMMENT",
    RenameStmt |-> "RENAME",
    GrantStmt |-> "GRANT",
    GrantRoleStmt |-> "GRANT",
    RevokeStmt |-> "REVOKE",
    RevokeRoleStmt |-> "REVOKE",
    CreateRoleStmt |-> "CREATE",
    AlterRoleStmt |-> "ALTER",
    DropRoleStmt |-> "DROP",
    TransactionStmt |-> "BEGIN",
    VacuumStmt |-> "VACUUM",
    ExplainStmt |-> "EXPLAIN",
    CopyStmt |-> "COPY",
    ListenStmt |-> "LISTEN",
    NotifyStmt |-> "NOTIFY",
    PrepareStmt |-> "PREPARE",
    ExecuteStmt |-> "EXECUTE",
    DeallocateStmt |-> "DEALLOCATE"
  ]

\* a classification that gives every DDL statement the risk MEDIUM
classify_statement_ddl_medium(stmt_type, stmt_node) ==
  LET config == IF stmt_type \in DOMAIN STATEMENT_CONFIG
                THEN STATEMENT_CONFIG[stmt_type]
                ELSE [category |-> "OTHER", risk_level |-> MEDIUM, needs_migration |-> FALSE]
  IN  IF stmt_type = "CopyStmt"
      THEN IF ~stmt_node.is_from
           THEN [config EXCEPT !.category = "DQL", !.risk_level = LOW]
           ELSE [config EXCEPT !.category = "DML", !.risk_level = MEDIUM]
      ELSE IF config.category = "DDL" THEN [config EXCEPT !.risk_level = MEDIUM]
      ELSE config

\* a classification that takes a node type the table does not name for harmless
classify_statement_unknown_low(stmt_type, stmt_node) ==
  LET config == IF stmt_type \in DOMAIN STATEMENT_CONFIG
                THEN STATEMENT_CONFIG[stmt_type]
                ELSE [category |-> "OTHER", risk_level |-> LOW, needs_migration |-> FALSE]
  IN  IF stmt_type = "CopyStmt"
      THEN IF ~stmt_node.is_from
           THEN [config EXCEPT !.category = "DQL", !.risk_level = LOW]
           ELSE [config EXCEPT !.category = "DML", !.risk_level = MEDIUM]
      ELSE config

\* SQLSafetyConfig.classify_statement
classify_statement(stmt_type, stmt_node) ==
  LET config == IF stmt_type \in DOMAIN STATEMENT_CONFIG
                THEN STATEMENT_CONFIG[stmt_type]
                ELSE [category |-> "OTHER", risk_level |-> MEDIUM, needs_migration |-> FALSE]
  IN  IF stmt_type = "CopyStmt"
      THEN IF ~stmt_node.is_from
           THEN [config EXCEPT !.category = "DQL", !.risk_level = LOW]
           ELSE [config EXCEPT !.category = "DML", !.risk_level = MEDIUM]
      ELSE config

(***************************************************************************)
(* SQL validator (services/database/sql/validator.py)                      *)
(***************************************************************************)
\* SQLValidator._map_to_command
map_to_command(stmt_type) ==
  IF stmt_type \in DOMAIN CommandMapping THEN CommandMapping[stmt_type] ELSE "UNKNOWN"

\* the RawStmt of segment i: the parser sets stmt_len when it meets the semicolon
\* that ends the statement and leaves it 0 ("rest of the string") for a final
\* statement that no semicolon ends
RawStmt(sql_query, i) ==
  [text     |-> sql_query[i],
   stmt     |-> ParseStmt(sql_query[i]),
   stmt_len |-> IF i < Len(sql_query) THEN Len(sql_query[i]) ELSE 0]

\* pglast.parse_sql: one RawStmt per non-empty statement, in order
parse_sql(sql_query) ==
  SelectSeq([i \in 1..Len(sql_query) |-> RawStmt(sql_query, i)], LAMBDA raw : raw.text # "")

\* original_query[stmt_location : stmt_location + stmt_len]
ExtractQuery(raw) == IF raw.stmt_len = 0 THEN "" ELSE raw.text

\* SQLValidator.STATEMENT_TYPE_TO_OBJECT_TYPE
STATEMENT_TYPE_TO_OBJECT_TYPE ==
  [
    CreateFunctionStmt |-> "function",
    ViewStmt |-> "view",
    CreateTableAsStmt |-> "materialized_view",
    CreateEnumStmt |-> "type",
    CreateTypeStmt |-> "type",
    CreateExtensionStmt |-> "extension",
    CreateForeignTableStmt |-> "foreign_table",
    CreatePolicyStmt |-> "policy",
    CreateTrigStmt |-> "trigger",
    IndexStmt |-> "index",
    CreateStmt |-> "table",
    AlterTableStmt |-> "table",
    GrantStmt |-> "privilege",
    RevokeStmt |-> "privilege",
    CreateProcStmt |-> "procedure"
  ]

\* the node has no attribute `relation` and no attribute `relations`
NoRelation == [relname |-> "none", schemaname |-> "none"]

\* the RangeVar found in the attribute `relation` of the node (CreateStmt,
\* InsertStmt, CopyStmt) or first in its attribute `relations` (TruncateStmt);
\* a DropStmt names its targets in `objects` and has neither attribute;
\* schemaname is None ("none") when the name is not qualified
RelationOf(text) ==
  CASE text \in {"INSERT INTO t VALUES (1)", "CREATE TABLE t (id int)", "TRUNCATE t",
                 "COPY t TO STDOUT", "COPY t FROM STDIN"}
         -> [relname |-> "t", schemaname |-> "none"]
    [] text \in {"CREATE TABLE IF NOT EXISTS supabase_migrations.schema_migrations",
                 "INSERT INTO supabase_migrations.schema_migrations"}
         -> [relname |-> "schema_migrations", schemaname |-> "supabase_migrations"]
    [] OTHER -> NoRelation

\* object_type as validate_statements sets it: the relname of the relation,
\* else the entry of STATEMENT_TYPE_TO_OBJECT_TYPE, else None ("none")
ObjectTypeOf(raw) ==
  IF RelationOf(raw.text) # NoRelation THEN RelationOf(raw.text).relname
  ELSE IF raw.stmt.type \in DOMAIN STATEMENT_TYPE_TO_OBJECT_TYPE
  THEN STATEMENT_TYPE_TO_OBJECT_TYPE[raw.stmt.type]
  ELSE "none"

\* schema_name as validate_statements sets it: public unless the relation names one
SchemaNameOf(raw) ==
  IF RelationOf(raw.text).schemaname # "none" THEN RelationOf(raw.text).schemaname
  ELSE "public"

\* one ValidatedStatement, as built in the loop of validate_statements
ValidatedStatement(raw) ==
  LET node == raw.stmt
      classification == classify_statement(node.type, node)
  IN  [category        |-> classification.category,
       command         |-> map_to_command(node.type),
       risk_level      |-> classification.risk_level,
       needs_migration |-> classification.needs_migration,
       object_type     |-> ObjectTypeOf(raw),
       schema_name     |-> SchemaNameOf(raw),
       query           |-> ExtractQuery(raw)]

\* the risk of the first statement taken for the risk of the batch
HighestRisk_first(stmts, highest) ==
  IF stmts = <<>> THEN highest ELSE Head(stmts).risk_level

\* the running maximum kept in validate_statements
RECURSIVE HighestRisk(_, _)
HighestRisk(stmts, highest) ==
  IF stmts = <<>> THEN highest
  ELSE HighestRisk(Tail(stmts),
                   IF Head(stmts).risk_level > highest THEN Head(stmts).risk_level ELSE highest)

\* SQLValidator.validate_statements: the QueryValidationResults of a parsed batch
validate_statements(original_query) ==
  LET parse_tree == parse_sql(original_query)
      statements == [i \in 1..Len(parse_tree) |-> ValidatedStatement(parse_tree[i])]
  IN  [statements         |-> statements,
       highest_risk_level |-> HighestRisk(statements, LOW),
       original_query     |-> original_query]

\* validate_query consulting has_transaction_control, which validate_statements never sets
validate_query_flag(sql_query) ==
  IF sql_query = <<>>
  THEN [error |-> "Query cannot be empty"]
  ELSE IF \E i \in 1..Len(sql_query) :
            sql_query[i] # "" /\ ParseStmt(sql_query[i]).type = "ParseError"
  THEN [error |-> "SQL syntax error"]
  ELSE IF parse_sql(sql_query) = <<>>
  THEN [error |-> "No queries were parsed"]
  ELSE [error |-> "none", result |-> validate_statements(sql_query)]

\* the loop of validate_query over the validated statements: any TCL statement
\* fails the whole batch
reject_transaction_control(result) ==
  IF \E i \in 1..Len(result.statements) : result.statements[i].category = "TCL"
  THEN [error |-> "Transaction control statements are not allowed"]
  ELSE [error |-> "none", result |-> result]

\* SQLValidator.validate_query: a batch is the sequence of its statement texts;
\* the empty sequence is the empty (or whitespace-only) input
validate_query(sql_query) ==
  IF sql_query = <<>>
  THEN [error |-> "Query cannot be empty"]
  ELSE IF \E i \in 1..Len(sql_query) :
            sql_query[i] # "" /\ ParseStmt(sql_query[i]).type = "ParseError"
  THEN [error |-> "SQL syntax error"]
  ELSE IF parse_sql(sql_query) = <<>>
  THEN [error |-> "No queries were parsed"]
  ELSE reject_transaction_control(validate_statements(sql_query))

\* a migration wanted for every batch that holds a statement
needs_migration_any(validation_result) ==
  validation_result.statements # <<>>

\* QueryValidationResults.needs_migration
needs_migration(validation_result) ==
  \E i \in 1..Len(validation_result.statements) : validation_result.statements[i].needs_migration

(***************************************************************************)
(* Migration names (services/database/migration_manager.py)                *)
(***************************************************************************)
\* str.lower() on the words the names are built from
lower(word) ==
  CASE word = "SELECT"   -> "select"
    [] word = "INSERT"   -> "insert"
    [] word = "CREATE"   -> "create"
    [] word = "DROP"     -> "drop"
    [] word = "TRUNCATE" -> "truncate"
    [] word = "COPY"     -> "copy"
    [] word = "UNKNOWN"  -> "unknown"
    [] OTHER             -> word

\* MigrationManager._extract_table_name: the name after CREATE TABLE, ALTER
\* TABLE, DROP TABLE, INSERT INTO, UPDATE or DELETE FROM
extract_table_name(query) ==
  CASE query \in {"CREATE TABLE t (id int)", "DROP TABLE t", "INSERT INTO t VALUES (1)"} -> "t"
    [] query \in {"CREATE TABLE IF NOT EXISTS supabase_migrations.schema_migrations",
                  "INSERT INTO supabase_migrations.schema_migrations"} -> "schema_migrations"
    [] OTHER -> "unknown"

\* MigrationManager._extract_generic_object_name: the last word of a
\* CREATE/ALTER/DROP head, else the name after ON, FROM or INTO
extract_generic_object_name(query) ==
  CASE query \in {"CREATE TABLE t (id int)", "DROP TABLE t", "INSERT INTO t VALUES (1)"} -> "t"
    [] query \in {"CREATE TABLE IF NOT EXISTS supabase_migrations.schema_migrations",
                  "INSERT INTO supabase_migrations.schema_migrations"} -> "schema_migrations"
    [] query = "CREATE SCHEMA IF NOT EXISTS supabase_migrations" -> "supabase_migrations"
    [] query = "COPY t FROM STDIN" -> "stdin"
    [] OTHER -> "unknown"

\* the object types _generate_ddl_name has an extractor of its own for
NamedObjectTypes ==
  {"table", "function", "procedure", "trigger", "index", "view", "materialized_view",
   "sequence", "constraint", "foreign_table", "extension", "type"}

\* MigrationManager._generate_ddl_name; a name is the sequence of the words
\* that the code joins with "_", as sanitize_name leaves them (lower case);
\* of the extractors only those of tables and the generic one find a name in
\* the statements parsed here
generate_ddl_name(statement) ==
  LET command == lower(statement.command)
      schema  == lower(statement.schema_name)
      object_type == IF statement.object_type # "none"
                     THEN lower(statement.object_type) ELSE "object"
      object_name ==
        IF statement.object_type = "none" \/ statement.query = "" THEN "unknown"
        ELSE IF object_type = "table" THEN extract_table_name(statement.query)
        ELSE IF object_type \in NamedObjectTypes THEN "unknown"
        ELSE extract_generic_object_name(statement.query)
  IN  <<command, object_type, schema, object_name>>

\* MigrationManager._generate_dml_name
generate_dml_name(statement) ==
  <<lower(statement.command), lower(statement.schema_name),
    IF statement.query # "" THEN extract_table_name(statement.query) ELSE "unknown">>

\* MigrationManager._generate_dcl_name: no statement parsed here grants or
\* revokes, so the extractors of privilege and object find nothing
generate_dcl_name(statement) ==
  <<lower(statement.command), "privilege", lower(statement.schema_name), "unknown">>

\* MigrationManager._generate_generic_name
generate_generic_name(statement) ==
  <<lower(statement.command), lower(statement.schema_name),
    IF statement.object_type # "none" THEN lower(statement.object_type) ELSE "object">>

\* MigrationManager.generate_descriptive_name: named after the first statement
\* that needs a migration
generate_descriptive_name(validation_result) ==
  LET wanting == SelectSeq(validation_result.statements, LAMBDA stmt : stmt.needs_migration)
  IN  IF wanting = <<>> THEN <<"migration", "hash">>
      ELSE IF Head(wanting).category = "DDL" THEN generate_ddl_name(Head(wanting))
      ELSE IF Head(wanting).category = "DML" THEN generate_dml_name(Head(wanting))
      ELSE IF Head(wanting).category = "DCL" THEN generate_dcl_name(Head(wanting))
      ELSE generate_generic_name(Head(wanting))

\* the widths of the fields of strftime("%Y%m%d%H%M%S")
TimestampFormat == <<4, 2, 2, 2, 2, 2>>

\* MigrationManager.generate_query_timestamp: the digits of the version
RECURSIVE SumOf(_)
SumOf(widths) == IF widths = <<>> THEN 0 ELSE Head(widths) + SumOf(Tail(widths))

generate_query_timestamp(t) == [at |-> t, digits |-> SumOf(TimestampFormat)]

\* no migration prepared
NoMigration == [name |-> <<>>]

\* MigrationManager.prepare_migration_query without a name from the caller:
\* the row (version, name, statements) that the insert records
prepare_migration_query(validation_result, original_query, t) ==
  [version    |-> generate_query_timestamp(t),
   name       |-> generate_descriptive_name(validation_result),
   statements |-> original_query]

PATH_SAFETY_CONFIG_EXTREME ==
  [
    DELETE |-> <<
        <<"v1", "projects", "{ref}">> >>
  ]

PATH_SAFETY_CONFIG_HIGH ==
  [
    DELETE |-> <<
        <<"v1", "projects", "{ref}", "branches", "{branch_id}">>,
        <<"v1", "projects", "{ref}", "branches">>,
        <<"v1", "projects", "{ref}", "custom-hostname">>,
        <<"v1", "projects", "{ref}", "vanity-subdomain">>,
        <<"v1", "projects", "{ref}", "network-bans">>,
        <<"v1", "projects", "{ref}", "secrets">>,
        <<"v1", "projects", "{ref}", "functions", "{function_slug}">>,
        <<"v1", "projects", "{ref}", "api-keys", "{id}">>,
        <<"v1", "projects", "{ref}", "config", "auth", "sso", "providers", "{provider_id}">>,
        <<"v1", "projects", "{ref}", "config", "auth", "signing-keys", "{id}">> >>,
    POST |-> <<
        <<"v1", "projects", "{ref}", "pause">>,
        <<"v1", "projects", "{ref}", "restore">>,
        <<"v1", "projects", "{ref}", "upgrade">>,
        <<"v1", "projects", "{ref}", "read-replicas", "remove">>,
        <<"v1", "projects", "{ref}", "restore", "cancel">>,
        <<"v1", "projects", "{ref}", "readonly", "temporary-disable">> >>
  ]

PATH_SAFETY_CONFIG_MEDIUM ==
  [
    POST |-> <<
        <<"v1", "projects">>,
        <<"v1", "organizations">>,
        <<"v1", "projects", "{ref}", "branches">>,
        <<"v1", "projects", "{ref}", "branches", "{branch_id}", "push">>,
        <<"v1", "projects", "{ref}", "branches", "{branch_id}", "reset">>,
        <<"v1", "projects", "{ref}", "custom-hostname", "initialize">>,
        <<"v1", "projects", "{ref}", "custom-hostname", "reverify">>,
        <<"v1", "projects", "{ref}", "custom-hostname", "activate">>,
        <<"v1", "projects", "{ref}", "network-bans", "retrieve">>,
        <<"v1", "projects", "{ref}", "network-restrictions", "apply">>,
        <<"v1", "projects", "{ref}", "secrets">>,
        <<"v1", "projects", "{ref}", "upgrade", "status">>,
        <<"v1", "projects", "{ref}", "database", "webhooks", "enable">>,
        <<"v1", "projects", "{ref}", "functions">>,
        <<"v1", "projects", "{ref}", "functions", "deploy">>,
        <<"v1", "projects", "{ref}", "config", "auth", "sso", "providers">>,
        <<"v1", "projects", "{ref}", "database", "backups", "restore-pitr">>,
        <<"v1", "projects", "{ref}", "read-replicas", "setup">>,
        <<"v1", "projects", "{ref}", "database", "query">>,
        <<"v1", "projects", "{ref}", "config", "auth", "signing-keys">>,
        <<"v1", "oauth", "token">>,
        <<"v1", "oauth", "revoke">>,
        <<"v1", "projects", "{ref}", "api-keys">> >>,
    PATCH |-> <<
        <<"v1", "projects", "{ref}", "config", "auth">>,
        <<"v1", "projects", "{ref}", "config", "database", "pooler">>,
        <<"v1", "projects", "{ref}", "postgrest">>,
        <<"v1", "projects", "{ref}", "functions", "{function_slug}">>,
        <<"v1", "projects", "{ref}", "config", "storage">>,
        <<"v1", "branches", "{branch_id}">>,
        <<"v1", "projects", "{ref}", "api-keys", "{id}">>,
        <<"v1", "projects", "{ref}", "config", "auth", "signing-keys", "{id}">> >>,
    PUT |-> <<
        <<"v1", "projects", "{ref}", "config", "database", "postgres">>,
        <<"v1", "projects", "{ref}", "pgsodium">>,
        <<"v1", "projects", "{ref}", "ssl-enforcement">>,
        <<"v1", "projects", "{ref}", "functions">>,
        <<"v1", "projects", "{ref}", "config", "auth", "sso", "providers", "{provider_id}">> >>
  ]

(***************************************************************************)
(* API risk config (services/safety/safety_configs.py, APISafetyConfig)    *)
(***************************************************************************)
PATH_SAFETY_CONFIG ==
  [risk_level \in {EXTREME, HIGH, MEDIUM} |->
     CASE risk_level = EXTREME -> PATH_SAFETY_CONFIG_EXTREME
       [] risk_level = HIGH    -> PATH_SAFETY_CONFIG_HIGH
       [] risk_level = MEDIUM  -> PATH_SAFETY_CONFIG_MEDIUM]

\* the placeholders _convert_pattern_to_regex rewrites to [^/]+
ConvertedPlaceholders ==
  {"{ref}", "{id}", "{slug}", "{table}", "{branch_id}", "{function_slug}"}

\* re.match of the converted pattern against a path, segment by segment:
\* [^/]+ matches any non-empty segment, any other text matches itself only
PathMatchesPattern(pattern, path) ==
  /\ Len(pattern) = Len(path)
  /\ \A i \in 1..Len(pattern) :
       IF pattern[i] \in ConvertedPlaceholders THEN path[i] # "" ELSE path[i] = pattern[i]

\* APISafetyConfig._path_matches_risk_level
path_matches_risk_level(method, path, risk_level) ==
  \E patterns \in {PATH_SAFETY_CONFIG[risk_level]} :
    /\ method \in DOMAIN patterns
    /\ \E i \in 1..Len(patterns[method]) : PathMatchesPattern(patterns[method][i], path)

\* APISafetyConfig.get_risk_level: risk levels from highest to lowest
api_get_risk_level(operation) ==
  IF path_matches_risk_level(operation.method, operation.path, EXTREME) THEN EXTREME
  ELSE IF path_matches_risk_level(operation.method, operation.path, HIGH) THEN HIGH
  ELSE IF path_matches_risk_level(operation.method, operation.path, MEDIUM) THEN MEDIUM
  ELSE LOW

\* SQLSafetyConfig.get_risk_level
sql_get_risk_level(operation) == operation.highest_risk_level

\* config.get_risk_level of the config registered for the client type
get_risk_level(client_type, operation) ==
  IF client_type = API THEN api_get_risk_level(operation) ELSE sql_get_risk_level(operation)

\* is_operation_allowed treating EXTREME like HIGH
is_operation_allowed_extreme(risk_level, mode) ==
  IF risk_level = LOW THEN TRUE ELSE mode = UNSAFE

\* is_operation_allowed letting MEDIUM through in every mode
is_operation_allowed_medium(risk_level, mode) ==
  IF risk_level = LOW THEN TRUE
  ELSE IF risk_level = MEDIUM THEN TRUE
  ELSE IF risk_level = HIGH THEN mode = UNSAFE
  ELSE FALSE

\* SafetyConfigBase.is_operation_allowed
is_operation_allowed(risk_level, mode) ==
  IF risk_level = LOW THEN TRUE
  ELSE IF risk_level = MEDIUM THEN mode = UNSAFE
  ELSE IF risk_level = HIGH THEN mode = UNSAFE
  ELSE FALSE

\* needs_confirmation with a strict comparison
needs_confirmation_strict(risk_level) == risk_level > HIGH

\* SafetyConfigBase.needs_confirmation
needs_confirmation(risk_level) == risk_level >= HIGH

(***************************************************************************)
(* Safety manager (services/safety/safety_manager.py)                      *)
(***************************************************************************)
confirmation_expiry == 300

NoEntry == [client_type |-> "none"]

\* _cleanup_expired_confirmations expiring an entry already at the limit
cleanup_expired_confirmations_ge(p, t) ==
  [k \in Tokens |->
     IF p[k] # NoEntry /\ t - p[k].timestamp >= confirmation_expiry THEN NoEntry ELSE p[k]]

\* SafetyManager._cleanup_expired_confirmations at time t
cleanup_expired_confirmations(p, t) ==
  [k \in Tokens |->
     IF p[k] # NoEntry /\ t - p[k].timestamp > confirmation_expiry THEN NoEntry ELSE p[k]]

\* _store_confirmation that cleans up but forgets the assignment
store_confirmation_forget(p, confirmation_id, client_type, operation, risk_level, t) ==
  cleanup_expired_confirmations(p, t)

\* _store_confirmation that does not clean up after the assignment
store_confirmation_keep(p, confirmation_id, client_type, operation, risk_level, t) ==
  [p EXCEPT ![confirmation_id] = [operation   |-> operation,
                                   client_type |-> client_type,
                                   risk_level  |-> risk_level,
                                   timestamp   |-> t]]

\* SafetyManager._store_confirmation at time t, uuid4 having produced confirmation_id
store_confirmation(p, confirmation_id, client_type, operation, risk_level, t) ==
  cleanup_expired_confirmations(
    [p EXCEPT ![confirmation_id] = [operation   |-> operation,
                                     client_type |-> client_type,
                                     risk_level  |-> risk_level,
                                     timestamp   |-> t]], t)

\* a lookup that consumes the entry it finds
get_confirmation_pop(p, confirmation_id, t) ==
  LET cleaned == cleanup_expired_confirmations(p, t)
  IN  [pending |-> IF confirmation_id \in Tokens
                   THEN [cleaned EXCEPT ![confirmation_id] = NoEntry] ELSE cleaned,
       found   |-> IF confirmation_id \in Tokens THEN cleaned[confirmation_id] ELSE NoEntry]

\* SafetyManager._get_confirmation: the pending map after the lookup and the entry found
get_confirmation(p, confirmation_id, t) ==
  LET cleaned == cleanup_expired_confirmations(p, t)
  IN  [pending |-> cleaned,
       found   |-> IF confirmation_id \in Tokens THEN cleaned[confirmation_id] ELSE NoEntry]

\* a gate that takes a confirmed operation for allowed, whatever the mode
validate_operation_at_confirmed(risk_level, p, m, client_type, operation, has_confirmation, confirmation_id, t) ==
  IF has_confirmation /\ risk_level = HIGH
  THEN [outcome |-> "Ok", pending |-> p, confirmation_id |-> "none"]
  ELSE IF ~is_operation_allowed(risk_level, m[client_type])
  THEN [outcome |-> "NotAllowed", pending |-> p, confirmation_id |-> "none"]
  ELSE IF needs_confirmation(risk_level) /\ ~has_confirmation
  THEN [outcome         |-> "ConfirmationRequired",
        pending         |-> store_confirmation(p, confirmation_id, client_type, operation, risk_level, t),
        confirmation_id |-> confirmation_id]
  ELSE [outcome |-> "Ok", pending |-> p, confirmation_id |-> "none"]

\* SafetyManager.validate_operation once the risk level of the operation is known
validate_operation_at(risk_level, p, m, client_type, operation, has_confirmation, confirmation_id, t) ==
  IF ~is_operation_allowed(risk_level, m[client_type])
  THEN [outcome |-> "NotAllowed", pending |-> p, confirmation_id |-> "none"]
  ELSE IF needs_confirmation(risk_level) /\ ~has_confirmation
  THEN [outcome         |-> "ConfirmationRequired",
        pending         |-> store_confirmation(p, confirmation_id, client_type, operation, risk_level, t),
        confirmation_id |-> confirmation_id]
  ELSE [outcome |-> "Ok", pending |-> p, confirmation_id |-> "none"]

\* SafetyManager.validate_operation: the outcome and the pending map it leaves
validate_operation(p, m, client_type, operation, has_confirmation, confirmation_id, t) ==
  validate_operation_at(get_risk_level(client_type, operation), p, m, client_type, operation,
                        has_confirmation, confirmation_id, t)

(***************************************************************************)
(* API manager (services/api/api_manager.py)                               *)
(***************************************************************************)
\* PathPlaceholder: the closed set of placeholder names
PathPlaceholder ==
  {"ref", "function_slug", "id", "slug", "branch_id", "provider_id", "tpa_id"}

\* "{" + key + "}"
Brace(key) ==
  CASE key = "ref"           -> "{ref}"
    [] key = "function_slug" -> "{function_slug}"
    [] key = "id"            -> "{id}"
    [] key = "slug"          -> "{slug}"
    [] key = "branch_id"     -> "{branch_id}"
    [] key = "provider_id"   -> "{provider_id}"
    [] key = "tpa_id"        -> "{tpa_id}"
    [] OTHER                 -> "{?}"

\* the segments re.findall(r"\{([^}]+)\}", path) finds
BracedSegments == {Brace(k) : k \in PathPlaceholder} \cup {"{table}", "{?}"}

\* settings.supabase_project_ref
supabase_project_ref == "abcdefghijklmnopqrst"

EmptyParams == [k \in {} |-> ""]

\* a substitution that takes the project ref the caller supplies
replace_path_params_caller_ref(path, path_params) ==
  IF \E key \in DOMAIN path_params : key \notin PathPlaceholder
  THEN [error |-> "Unknown path parameter"]
  ELSE LET working_params == [k \in DOMAIN path_params \cup {"ref"} |->
                                IF k \in DOMAIN path_params THEN path_params[k]
                                ELSE supabase_project_ref]
           replaced == [i \in 1..Len(path) |->
                          IF \E k \in DOMAIN working_params : path[i] = Brace(k)
                          THEN working_params[CHOOSE k \in DOMAIN working_params : path[i] = Brace(k)]
                          ELSE path[i]]
       IN  IF \E i \in 1..Len(replaced) : replaced[i] \in BracedSegments
           THEN [error |-> "Missing path parameters"]
           ELSE [error |-> "none", path |-> replaced]

\* SupabaseApiManager.replace_path_params
replace_path_params(path, path_params) ==
  IF "ref" \in DOMAIN path_params
  THEN [error |-> "Do not provide 'ref' in path_params"]
  ELSE IF \E key \in DOMAIN path_params : key \notin PathPlaceholder
  THEN [error |-> "Unknown path parameter"]
  ELSE LET working_params == [k \in DOMAIN path_params \cup {"ref"} |->
                                IF k = "ref" THEN supabase_project_ref ELSE path_params[k]]
           replaced == [i \in 1..Len(path) |->
                          IF \E k \in DOMAIN working_params : path[i] = Brace(k)
                          THEN working_params[CHOOSE k \in DOMAIN working_params : path[i] = Brace(k)]
                          ELSE path[i]]
       IN  IF \E i \in 1..Len(replaced) : replaced[i] \in BracedSegments
           THEN [error |-> "Missing path parameters"]
           ELSE [error |-> "none", path |-> replaced]

(***************************************************************************)
(* Requests submitted by the callers                                       *)
(***************************************************************************)
\* the SQL batches callers submit, each the sequence of the segments of its
\* text between semicolons
Batches ==
  { <<>>,
    <<"SELEC">>,
    <<"", "">>,
    <<"SELECT 1">>,
    <<"SELECT 1", "">>,
    <<"CREATE TABLE t (id int)", "">>,
    <<"INSERT INTO t VALUES (1)">>,
    <<"CALL p()">>,
    <<"CREATE TABLE t (id int)">>,
    <<"DROP TABLE t">>,
    <<"SELECT 1", "DROP TABLE t">>,
    <<"ROLLBACK">>,
    <<"BEGIN", "SELECT 1", "COMMIT">>,
    <<"DROP TABLE t", "SAVEPOINT s">> }

ApiOp(method, path, path_params, request_body) ==
  [method |-> method, path |-> path, path_params |-> path_params,
   request_params |-> EmptyParams, request_body |-> request_body]

\* the Management API operations callers submit
ApiOps ==
  { ApiOp("GET",    <<"v1", "projects", "{ref}", "functions">>, EmptyParams, "none"),
    ApiOp("POST",   <<"v1", "projects", "{ref}", "secrets">>, EmptyParams, "body1"),
    ApiOp("DELETE", <<"v1", "projects", "{ref}", "functions", "{function_slug}">>,
                    [function_slug |-> "hello"], "none"),
    ApiOp("DELETE", <<"v1", "projects", "{ref}">>, EmptyParams, "none"),
    ApiOp("GET",    <<"v1", "projects", "{ref}", "functions", "{function_slug}">>,
                    [ref |-> "other"], "none"),
    ApiOp("GET",    <<"v1", "projects", "{ref}", "functions", "{function_slug}">>,
                    EmptyParams, "none") }

NoApiOp == ApiOp("none", <<>>, EmptyParams, "none")

\* the confirmation ids callers present
PresentedIds == Tokens \cup {"conf_unknown"}

(***************************************************************************)
(* State                                                                   *)
(***************************************************************************)
VARIABLES
  safety_modes,           \* SafetyManager._safety_modes
  pending_confirmations,  \* SafetyManager._pending_confirmations
  now,                    \* time.time()
  req,                    \* the requests in progress, one per slot
  pool,                   \* PostgresClient._pool and the pools create_pool has returned
  database,               \* the statements whose effects are committed in the database
  call                    \* per slot, the execute_query or send_request call in progress

vars == <<safety_modes, pending_confirmations, now, req, pool, database, call>>

\* what the calls to the database and to the Management API work on
io_vars == <<pool, database, call>>

\* no call in progress
NoCall == [state |-> "none"]

\* PostgresClient._pool is None and no pool was created; pools are numbered
\* in the order create_pool returns them, 0 standing for None
NoPool == [current |-> 0, created |-> {}]

IdleReq ==
  [pc               |-> "idle",
   tool             |-> "none",
   access           |-> "none",
   migration        |-> NoMigration,
   client_type      |-> "none",
   entry            |-> "none",
   query            |-> <<>>,
   api_op           |-> NoApiOp,
   has_confirmation |-> FALSE,
   confirmation_id  |-> "none",
   issued_id        |-> "none",
   started_at       |-> 0,
   mode_read        |-> "none",
   readonly         |-> FALSE,
   executed         |-> <<>>,
   sent             |-> NoApiOp,
   outcome          |-> "none",
   trace            |-> <<>>]

Init ==
  /\ safety_modes = [c \in ClientType |-> SAFE]
  /\ pending_confirmations = [k \in Tokens |-> NoEntry]
  /\ now = 0
  /\ req = [r \in Req |-> IdleReq]
  /\ pool = NoPool
  /\ database = {}
  /\ call = [r \in Req |-> NoCall]

\* check_readonly that never asks for a read-only transaction
check_readonly_never(m) == m[DATABASE] \notin SafetyMode

\* check_readonly asking for the mode of the wrong client
check_readonly_api(m) == m[API] = SAFE

\* QueryManager.check_readonly
check_readonly(m) == m[DATABASE] = SAFE

\* the texts execute_query runs, in order: a statement whose query is empty is skipped
StatementTexts(validated_query) ==
  SelectSeq([i \in 1..Len(validated_query.statements) |-> validated_query.statements[i].query],
            LAMBDA query : query # "")

\* handle_query executing the batch first and recording the migration afterwards
step_after_late_migration(step, validated_query) ==
  CASE step = "gate"    -> "execute"
    [] step = "execute" -> IF needs_migration(validated_query) THEN "init" ELSE "done"
    [] step = "init"    -> "insert"
    [] step = "insert"  -> "done"

\* the order of the steps of handle_query: what follows the completed step
step_after(step, validated_query) ==
  CASE step = "gate"    -> IF needs_migration(validated_query) THEN "init" ELSE "execute"
    [] step = "init"    -> "insert"
    [] step = "insert"  -> "execute"
    [] step = "execute" -> "done"

\* the request enters a step: the call is made and the coroutine suspends on it;
\* on entering the primary execution handle_query_execution reads the mode
enter_step(rq, step) ==
  IF step = "done"
  THEN [rq EXCEPT !.pc = "done"]
  ELSE IF step = "execute"
  THEN [rq EXCEPT !.pc = "execute",
                  !.readonly = check_readonly(safety_modes),
                  !.executed = StatementTexts(validate_query(rq.query).result),
                  !.trace = Append(@, "execute")]
  ELSE IF step = "init"
  THEN [rq EXCEPT !.pc = "init",
                  !.migration = prepare_migration_query(validate_query(rq.query).result,
                                                        rq.query, now),
                  !.trace = Append(@, "init")]
  ELSE [rq EXCEPT !.pc = step, !.trace = Append(@, step)]

\* a handler that leaves before its change of the pending map has taken effect
Leave_torn(r, rq, p) ==
  /\ req' = [req EXCEPT ![r] = rq]
  /\ pending_confirmations' = pending_confirmations

\* a handler leaves request r as rq and the pending map as p
Leave(r, rq, p) ==
  /\ req' = [req EXCEPT ![r] = rq]
  /\ pending_confirmations' = p

\* QueryManager.handle_query up to its first suspension: validate, gate, then
\* either the call of init_migration_schema or the call of execute_query
handle_query(r, start, p, query, has_confirmation, uuid) ==
  \E v \in {validate_query(query)} :
    LET base == [start EXCEPT !.client_type = DATABASE, !.query = query,
                              !.has_confirmation = has_confirmation]
        gated == [base EXCEPT !.mode_read = safety_modes[DATABASE],
                              !.trace = <<"validate", "gate">>]
    IN  IF v.error # "none"
        THEN Leave(r, [base EXCEPT !.pc = "done", !.outcome = "ValidationError",
                                   !.trace = <<"validate">>], p)
        ELSE \E g \in {validate_operation(p, safety_modes, DATABASE, v.result,
                                          has_confirmation, uuid, now)} :
               IF g.outcome # "Ok"
               THEN Leave(r, [gated EXCEPT !.pc = "done", !.outcome = g.outcome,
                                           !.issued_id = g.confirmation_id], g.pending)
               ELSE Leave(r, enter_step(gated, step_after("gate", v.result)), g.pending)

\* SupabaseApiManager.execute_request up to the send of the HTTP request;
\* access_token: settings.supabase_access_token is set when the client reads it
execute_request(r, start, p, operation, has_confirmation, uuid, access_token) ==
  \E g \in {validate_operation(p, safety_modes, API, operation, has_confirmation, uuid, now)},
     sub \in {replace_path_params(operation.path, operation.path_params)} :
    LET gated == [start EXCEPT !.client_type = API, !.api_op = operation,
                               !.has_confirmation = has_confirmation,
                               !.mode_read = safety_modes[API],
                               !.trace = <<"gate">>]
    IN  IF g.outcome # "Ok"
        THEN Leave(r, [gated EXCEPT !.pc = "done", !.outcome = g.outcome,
                                    !.issued_id = g.confirmation_id], g.pending)
        ELSE IF sub.error # "none"
        THEN Leave(r, [gated EXCEPT !.pc = "done", !.outcome = "ValueError"], g.pending)
        ELSE IF ~access_token
        THEN Leave(r, [gated EXCEPT !.pc = "done", !.outcome = "APIClientError"], g.pending)
        ELSE Leave(r, [gated EXCEPT !.pc = "http",
                                    !.sent = [operation EXCEPT !.path = sub.path,
                                                               !.path_params = EmptyParams],
                                    !.trace = Append(gated.trace, "http")], g.pending)

(***************************************************************************)
(* Actions                                                                 *)
(***************************************************************************)
\* a change of mode that also drops the pending confirmations
SetSafetyMode_forget(client_type, mode) ==
  /\ safety_modes' = [safety_modes EXCEPT ![client_type] = mode]
  /\ pending_confirmations' = [k \in Tokens |-> NoEntry]
  /\ UNCHANGED <<now, req>>

\* SafetyManager.set_safety_mode (the live_dangerously tool)
SetSafetyMode(client_type, mode) ==
  /\ safety_modes' = [safety_modes EXCEPT ![client_type] = mode]
  /\ UNCHANGED <<pending_confirmations, now, req>>

\* the wall clock advances to a later instant
Tick(t) ==
  /\ t > now
  /\ now' = t
  /\ UNCHANGED <<safety_modes, pending_confirmations, req>>

\* the execute_postgresql tool: QueryManager.handle_query(query, has_confirmation=False)
HandleQuery(r, query, uuid) ==
  /\ req[r].pc = "idle"
  /\ handle_query(r, [IdleReq EXCEPT !.entry = "handle_query", !.started_at = now],
                  pending_confirmations, query, FALSE, uuid)
  /\ UNCHANGED <<safety_modes, now>>

\* a handle_confirmation that answers the token of an API operation with an
\* empty result
HandleConfirmation_swallow(r, confirmation_id) ==
  /\ req[r].pc = "idle"
  /\ \E look \in {get_confirmation(pending_confirmations, confirmation_id, now)} :
       LET start == [IdleReq EXCEPT !.entry = "handle_confirmation", !.client_type = DATABASE,
                                    !.confirmation_id = confirmation_id, !.started_at = now]
       IN  IF look.found = NoEntry
           THEN Leave(r, [start EXCEPT !.pc = "done", !.outcome = "InvalidConfirmation"],
                      look.pending)
           ELSE IF look.found.client_type # DATABASE
           THEN Leave(r, [start EXCEPT !.pc = "done", !.outcome = "Ok"], look.pending)
           ELSE handle_query(r, start, look.pending,
                             look.found.operation.original_query, TRUE, "none")
  /\ UNCHANGED <<safety_modes, now>>

\* QueryManager.handle_confirmation
HandleConfirmation(r, confirmation_id) ==
  /\ req[r].pc = "idle"
  /\ \E look \in {get_confirmation(pending_confirmations, confirmation_id, now)} :
       LET start == [IdleReq EXCEPT !.entry = "handle_confirmation", !.client_type = DATABASE,
                                    !.confirmation_id = confirmation_id, !.started_at = now]
       IN  IF look.found = NoEntry
           THEN Leave(r, [start EXCEPT !.pc = "done", !.outcome = "InvalidConfirmation"],
                      look.pending)
           ELSE IF look.found.client_type # DATABASE
           THEN \* the stored tuple has no attribute original_query
                Leave(r, [start EXCEPT !.pc = "done", !.outcome = "AttributeError"],
                      look.pending)
           ELSE handle_query(r, start, look.pending,
                             look.found.operation.original_query, TRUE, "none")
  /\ UNCHANGED <<safety_modes, now>>

\* init_migration_schema returns (its failure is logged and swallowed)
MigrationInitDone(r, ok) ==
  /\ req[r].pc = "init"
  /\ req' = [req EXCEPT ![r] = enter_step(req[r], step_after("init", validate_query(req[r].query).result))]
  /\ UNCHANGED <<safety_modes, pending_confirmations, now>>

\* handle_migration letting the failure of the insert reach the caller
MigrationInsertDone_raise(r, ok) ==
  /\ req[r].pc = "insert"
  /\ req' = [req EXCEPT ![r] =
               IF ok
               THEN enter_step(req[r], step_after("insert", validate_query(req[r].query).result))
               ELSE [req[r] EXCEPT !.pc = "done", !.outcome = "QueryError"]]
  /\ UNCHANGED <<safety_modes, pending_confirmations, now>>

\* execute_query of the migration insert returns (its failure is logged and swallowed)
MigrationInsertDone(r, ok) ==
  /\ req[r].pc = "insert"
  /\ req' = [req EXCEPT ![r] = enter_step(req[r], step_after("insert", validate_query(req[r].query).result))]
  /\ UNCHANGED <<safety_modes, pending_confirmations, now>>

\* PostgresClient.execute_query of the primary batch returns or raises
ExecuteQueryDone(r, result) ==
  /\ req[r].pc = "execute"
  /\ req' = [req EXCEPT ![r] =
               IF result = "Ok"
               THEN enter_step([req[r] EXCEPT !.outcome = result],
                               step_after("execute", validate_query(req[r].query).result))
               ELSE [req[r] EXCEPT !.pc = "done", !.outcome = result]]
  /\ UNCHANGED <<safety_modes, pending_confirmations, now>>

\* the send_management_api_request tool: SupabaseApiManager.execute_request
ExecuteRequest(r, operation, uuid, access_token) ==
  /\ req[r].pc = "idle"
  /\ execute_request(r, [IdleReq EXCEPT !.entry = "execute_request", !.started_at = now],
                     pending_confirmations, operation, FALSE, uuid, access_token)
  /\ UNCHANGED <<safety_modes, now>>

\* SupabaseApiManager.handle_confirmation
ApiHandleConfirmation(r, confirmation_id, access_token) ==
  /\ req[r].pc = "idle"
  /\ \E look \in {get_confirmation(pending_confirmations, confirmation_id, now)} :
       LET start == [IdleReq EXCEPT !.entry = "handle_confirmation", !.client_type = API,
                                    !.confirmation_id = confirmation_id, !.started_at = now]
       IN  IF look.found = NoEntry
           THEN Leave(r, [start EXCEPT !.pc = "done", !.outcome = "InvalidConfirmation"],
                      look.pending)
           ELSE IF look.found.client_type # API
           THEN \* the stored QueryValidationResults is not subscriptable
                Leave(r, [start EXCEPT !.pc = "done", !.outcome = "TypeError"],
                      look.pending)
           ELSE execute_request(r, start, look.pending, look.found.operation, TRUE, "none",
                                access_token)
  /\ UNCHANGED <<safety_modes, now>>

\* ManagementAPIClient.execute_request returns or raises after the send
HttpDone(r, result) ==
  /\ req[r].pc = "http"
  /\ req' = [req EXCEPT ![r].pc = "done", ![r].outcome = result]
  /\ UNCHANGED <<safety_modes, pending_confirmations, now>>

\* the result or error of a finished request is handed to its caller
Return(r) ==
  /\ req[r].pc = "done"
  /\ req' = [req EXCEPT ![r] = IdleReq]
  /\ UNCHANGED <<safety_modes, pending_confirmations, now>>

QueryOutcomes == {"Ok", "QueryError", "PermissionError", "ConnectionError", "RetryError"}
HttpOutcomes ==
  {"Ok", "APIClientError", "APIServerError", "APIConnectionError", "UnexpectedError",
   "APIResponseError"}

(***************************************************************************)
(* Retry decorators (tenacity)                                             *)
(***************************************************************************)
\* stop=stop_after_attempt(3)
stop_after_attempt == 3

\* a retry policy that retries whatever the exception raised
retry_decision_always(matches, attempt_number, reraise) ==
  IF attempt_number < stop_after_attempt THEN "retry"
  ELSE IF reraise THEN "raise"
  ELSE "RetryError"

\* what follows a failed attempt under @retry(retry=retry_if_exception_type(T),
\* stop=stop_after_attempt(3)): matches says the raised exception is of a
\* type in T; without reraise=True the exhausted retry raises RetryError
retry_decision(matches, attempt_number, reraise) ==
  IF ~matches THEN "raise"
  ELSE IF attempt_number < stop_after_attempt THEN "retry"
  ELSE IF reraise THEN "raise"
  ELSE "RetryError"

(***************************************************************************)
(* Postgres client (services/database/postgres_client.py)                  *)
(***************************************************************************)
\* errors of the connection: lost connection, interface error, too many
\* connections, OS network error
ConnectionErrors ==
  {"ConnectionDoesNotExistError", "InterfaceError", "TooManyConnectionsError", "OSError"}

\* errors the server answers a statement with
StatementErrors ==
  {"InsufficientPrivilegeError", "UndefinedTableError", "UndefinedColumnError",
   "PostgresSyntaxError", "ReadOnlySQLTransactionError"}

\* the errors above that are subclasses of asyncpg.PostgresError
PostgresErrors ==
  {"ConnectionDoesNotExistError", "TooManyConnectionsError"} \cup StatementErrors

\* the exception types named by the retry decorators of create_pool and execute_query
db_retry_types ==
  {"ConnectionDoesNotExistError", "InterfaceError", "TooManyConnectionsError", "OSError"}

\* PostgresClient._handle_postgres_error
handle_postgres_error(error) ==
  IF error = "InsufficientPrivilegeError" THEN "PermissionError"
  ELSE IF error \in {"UndefinedTableError", "UndefinedColumnError"} THEN "QueryError"
  ELSE "QueryError"

\* the except clauses of create_pool: what its body raises for an error
create_pool_raises(error) ==
  IF error \in PostgresErrors THEN "ConnectionError"
  ELSE IF error = "OSError" THEN "ConnectionError"
  ELSE error

\* the except clause of execute_statement: what it raises for an error of conn.fetch
execute_statement_raises(error) ==
  IF error \in PostgresErrors THEN handle_postgres_error(error) ELSE error

\* the statement changes the database (the server refuses it in a read-only transaction)
IsWrite(text) == ParseStmt(text).type # "SelectStmt"

\* SQLLoader.get_init_migrations_query
InitMigrationsQuery ==
  <<"CREATE SCHEMA IF NOT EXISTS supabase_migrations",
    "CREATE TABLE IF NOT EXISTS supabase_migrations.schema_migrations",
    "">>

\* SQLLoader.get_create_migration_query
CreateMigrationQuery ==
  <<"INSERT INTO supabase_migrations.schema_migrations", "">>

\* the query execute_query is called with at the step the request is suspended on
CalledQuery(rq) ==
  CASE rq.pc = "init"    -> InitMigrationsQuery
    [] rq.pc = "insert"  -> CreateMigrationQuery
    [] rq.pc = "execute" -> rq.query

\* a call of execute_query(validated_query, readonly) starting its first attempt
NewCall(purpose, validated_query, readonly) ==
  [state          |-> "connect",
   purpose        |-> purpose,
   statements     |-> [i \in 1..Len(validated_query.statements) |->
                         validated_query.statements[i].query],
   todo           |-> StatementTexts(validated_query),
   readonly       |-> readonly,
   attempt_number |-> 1,
   pool_attempt_number |-> 1,
   i              |-> 1,
   applied        |-> <<>>,
   results        |-> <<>>,
   conn_pool      |-> 0,
   error          |-> "none",
   cause          |-> "none",
   outcome        |-> "none"]

\* an attempt of execute_query ends raising `raised` because of the error
\* `cause`: the transaction, if one is open, is rolled back and the retry
\* decorator decides what follows
attempt_failed(c, raised, cause) ==
  LET decision == retry_decision(raised \in db_retry_types, c.attempt_number, FALSE)
      rolled_back == [c EXCEPT !.applied = <<>>, !.conn_pool = 0, !.error = raised,
                               !.cause = cause]
  IN  CASE decision = "retry" ->
             [rolled_back EXCEPT !.state = "connect", !.attempt_number = @ + 1]
        [] decision = "raise" ->
             [rolled_back EXCEPT !.state = "returned", !.outcome = raised]
        [] decision = "RetryError" ->
             [rolled_back EXCEPT !.state = "returned", !.outcome = "RetryError"]

\* the request suspended on a database step calls PostgresClient.execute_query:
\* the migration queries are run read-write, the primary batch with the
\* readonly flag handle_query_execution read
ExecuteQueryCall(r) ==
  /\ req[r].pc \in {"init", "insert", "execute"}
  /\ call[r] = NoCall
  /\ call' = [call EXCEPT ![r] =
                NewCall(req[r].pc, validate_query(CalledQuery(req[r])).result,
                        IF req[r].pc = "execute" THEN req[r].readonly ELSE FALSE)]
  /\ UNCHANGED <<safety_modes, pending_confirmations, now, req, pool, database>>

\* ensure_pool finds no pool: one attempt of create_pool under its retry decorator
CreatePool(r, result) ==
  /\ call[r].state = "connect"
  /\ pool.current = 0
  /\ IF result = "Ok"
     THEN /\ pool' = [current |-> Cardinality(pool.created) + 1,
                      created |-> pool.created \cup {Cardinality(pool.created) + 1}]
          /\ call' = [call EXCEPT ![r].pool_attempt_number = 1]
     ELSE LET raised == create_pool_raises(result)
              decision == retry_decision(raised \in db_retry_types,
                                         call[r].pool_attempt_number, FALSE)
          IN  /\ pool' = pool
              /\ call' = [call EXCEPT ![r] =
                   CASE decision = "retry" ->
                          [call[r] EXCEPT !.pool_attempt_number = @ + 1, !.error = raised,
                                          !.cause = result]
                     [] decision = "raise" ->
                          attempt_failed([call[r] EXCEPT !.pool_attempt_number = 1],
                                         raised, result)
                     [] decision = "RetryError" ->
                          attempt_failed([call[r] EXCEPT !.pool_attempt_number = 1],
                                         "RetryError", result)]
  /\ UNCHANGED <<safety_modes, pending_confirmations, now, req, database>>

\* with_connection acquires one connection from the pool and with_transaction
\* opens a transaction on it with the readonly flag of the call
BeginTransaction(r, result) ==
  /\ call[r].state = "connect"
  /\ pool.current # 0
  /\ call' = [call EXCEPT ![r] =
                IF result = "Ok"
                THEN [call[r] EXCEPT !.state = "transaction", !.i = 1,
                                     !.conn_pool = pool.current,
                                     !.applied = <<>>, !.results = <<>>]
                ELSE attempt_failed(call[r], result, result)]
  /\ UNCHANGED <<safety_modes, pending_confirmations, now, req, pool, database>>

\* execute_statement outside any transaction: each statement takes effect at once
ExecuteStatement_autocommit(r, result) ==
  /\ call[r].state = "transaction"
  /\ call[r].i <= Len(call[r].todo)
  /\ LET text == call[r].todo[call[r].i]
         refused == call[r].readonly /\ IsWrite(text)
     IN  /\ result = "Ok" => ~refused
         /\ result = "ReadOnlySQLTransactionError" => refused
         /\ database' = IF result = "Ok" /\ IsWrite(text) THEN database \cup {text}
                        ELSE database
         /\ call' = [call EXCEPT ![r] =
                       IF result = "Ok"
                       THEN [call[r] EXCEPT !.i = @ + 1,
                                            !.applied = Append(@, text),
                                            !.results = Append(@, text)]
                       ELSE attempt_failed(call[r], execute_statement_raises(result), result)]
  /\ UNCHANGED <<safety_modes, pending_confirmations, now, req, pool>>

\* execute_statement of the next statement whose query is not empty
ExecuteStatement(r, result) ==
  /\ call[r].state = "transaction"
  /\ call[r].i <= Len(call[r].todo)
  /\ LET text == call[r].todo[call[r].i]
         refused == call[r].readonly /\ IsWrite(text)
     IN  /\ result = "Ok" => ~refused
         /\ result = "ReadOnlySQLTransactionError" => refused
         /\ call' = [call EXCEPT ![r] =
                       IF result = "Ok"
                       THEN [call[r] EXCEPT !.i = @ + 1,
                                            !.applied = Append(@, text),
                                            !.results = Append(@, text)]
                       ELSE attempt_failed(call[r], execute_statement_raises(result), result)]
  /\ UNCHANGED <<safety_modes, pending_confirmations, now, req, pool, database>>

\* the loop is over: the transaction commits and execute_query returns the results
Commit(r, result) ==
  /\ call[r].state = "transaction"
  /\ call[r].i > Len(call[r].todo)
  /\ IF result = "Ok"
     THEN /\ database' = database \cup
                           {call[r].applied[j] : j \in {j \in 1..Len(call[r].applied) :
                                                          IsWrite(call[r].applied[j])}}
          /\ call' = [call EXCEPT ![r].state = "returned", ![r].outcome = "Ok",
                                  ![r].conn_pool = 0, ![r].applied = <<>>]
     ELSE /\ database' = database
          /\ call' = [call EXCEPT ![r] = attempt_failed(call[r], result, result)]
  /\ UNCHANGED <<safety_modes, pending_confirmations, now, req, pool>>

\* execute_query returns or raises to the query manager, which goes on
ExecuteQueryReturn(r) ==
  /\ call[r].state = "returned"
  /\ call[r].purpose \in {"init", "insert", "execute"}
  /\ CASE call[r].purpose = "init"    -> MigrationInitDone(r, call[r].outcome = "Ok")
       [] call[r].purpose = "insert"  -> MigrationInsertDone(r, call[r].outcome = "Ok")
       [] call[r].purpose = "execute" -> ExecuteQueryDone(r, call[r].outcome)
  /\ call' = [call EXCEPT ![r] = NoCall]
  /\ UNCHANGED <<pool, database>>

(***************************************************************************)
(* Management API client (clients/management_client.py)                    *)
(***************************************************************************)
\* what httpx answers a send with: a response by status class, or an exception
TransportResults == {"2xx", "3xx", "4xx", "5xx", "NetworkError", "TimeoutException"}

\* the content of a response: none, a JSON document, or text that is not JSON
ResponseBodies == {"empty", "json", "text"}

\* ManagementAPIClient.parse_response: the body parsed, or the error raised
parse_response(body) ==
  IF body = "empty" THEN "Ok"
  ELSE IF body = "json" THEN "Ok"
  ELSE "APIResponseError"

\* the except clauses of send_request: what its body raises for an exception of client.send
send_request_raises(error) ==
  IF error = "NetworkError" THEN "APIConnectionError" ELSE "APIClientError"

\* every response that is not a success taken for a client error
classify_response_client(status) ==
  IF status = "2xx" THEN "Ok" ELSE "APIClientError"

\* response.is_success, else handle_error_response
classify_response(status) ==
  CASE status = "2xx" -> "Ok"
    [] status = "4xx" -> "APIClientError"
    [] status = "5xx" -> "APIServerError"
    [] OTHER          -> "UnexpectedError"

\* execute_request after the send: the body is parsed first, the status looked at second
response_outcome(status, body) ==
  IF parse_response(body) # "Ok" THEN parse_response(body) ELSE classify_response(status)

\* the request suspended on the HTTP step calls ManagementAPIClient.send_request
SendRequestCall(r) ==
  /\ req[r].pc = "http"
  /\ call[r] = NoCall
  /\ call' = [call EXCEPT ![r] =
                [state |-> "send", purpose |-> "http", attempt_number |-> 1,
                 error |-> "none", cause |-> "none", status |-> "none", body |-> "none",
                 outcome |-> "none"]]
  /\ UNCHANGED <<safety_modes, pending_confirmations, now, req, pool, database>>

\* one attempt of send_request under its retry decorator
\* (retry_if_exception_type(httpx.NetworkError), reraise=True)
SendRequest(r, result, body) ==
  /\ call[r].state = "send"
  /\ result \in {"NetworkError", "TimeoutException"} => body = "empty"
  /\ call' = [call EXCEPT ![r] =
       IF result \in {"NetworkError", "TimeoutException"}
       THEN LET raised == send_request_raises(result)
                decision == retry_decision(raised = "NetworkError",
                                           call[r].attempt_number, TRUE)
            IN  IF decision = "retry"
                THEN [call[r] EXCEPT !.attempt_number = @ + 1, !.error = raised,
                                     !.cause = result]
                ELSE [call[r] EXCEPT !.state = "returned", !.error = raised,
                                     !.cause = result, !.outcome = raised]
       ELSE [call[r] EXCEPT !.state = "returned", !.status = result, !.body = body,
                            !.outcome = response_outcome(result, body)]]
  /\ UNCHANGED <<safety_modes, pending_confirmations, now, req, pool, database>>

\* ManagementAPIClient.execute_request returns or raises to the API manager
SendRequestReturn(r) ==
  /\ call[r].state = "returned"
  /\ call[r].purpose = "http"
  /\ HttpDone(r, call[r].outcome)
  /\ call' = [call EXCEPT ![r] = NoCall]
  /\ UNCHANGED <<pool, database>>

Next ==
  \/ \E c \in ClientType, m \in SafetyMode : SetSafetyMode(c, m) /\ UNCHANGED io_vars
  \/ \E t \in Instants : Tick(t) /\ UNCHANGED io_vars
  \/ \E r \in DOMAIN req, q \in Batches, u \in Tokens : HandleQuery(r, q, u) /\ UNCHANGED io_vars
  \/ \E r \in DOMAIN req, k \in PresentedIds : HandleConfirmation(r, k) /\ UNCHANGED io_vars
  \/ \E r \in DOMAIN req, ok \in BOOLEAN : MigrationInitDone(r, ok) /\ UNCHANGED io_vars
  \/ \E r \in DOMAIN req, ok \in BOOLEAN : MigrationInsertDone(r, ok) /\ UNCHANGED io_vars
  \/ \E r \in DOMAIN req, res \in QueryOutcomes : ExecuteQueryDone(r, res) /\ UNCHANGED io_vars
  \/ \E r \in DOMAIN req, op \in ApiOps, u \in Tokens, a \in BOOLEAN : ExecuteRequest(r, op, u, a) /\ UNCHANGED io_vars
  \/ \E r \in DOMAIN req, k \in PresentedIds, a \in BOOLEAN : ApiHandleConfirmation(r, k, a) /\ UNCHANGED io_vars
  \/ \E r \in DOMAIN req, res \in HttpOutcomes : HttpDone(r, res) /\ UNCHANGED io_vars
  \/ \E r \in DOMAIN req : Return(r) /\ UNCHANGED io_vars

Spec == Init /\ [][Next]_vars

(***************************************************************************)
(* The calls to the database and to the Management API, attempt by attempt *)
(***************************************************************************)
\* the batches submitted while the calls are followed step by step
ExecBatches ==
  { <<"SELEC">>,
    <<"DROP TABLE t", "">>,
    <<"SELECT 1">>,
    <<"SELECT 1", "">>,
    <<"CREATE TABLE t (id int)", "">>,
    <<"CREATE TABLE t (id int)", "INSERT INTO t VALUES (1)", "">> }

\* the Management API operations submitted while the calls are followed step by step
ExecApiOps ==
  { ApiOp("GET",  <<"v1", "projects", "{ref}", "functions">>, EmptyParams, "none"),
    ApiOp("POST", <<"v1", "projects", "{ref}", "secrets">>, EmptyParams, "body1") }

NextExec ==
  \/ \E c \in ClientType, m \in SafetyMode : SetSafetyMode(c, m) /\ UNCHANGED io_vars
  \/ \E r \in DOMAIN req, q \in ExecBatches : HandleQuery(r, q, "conf_1") /\ UNCHANGED io_vars
  \/ \E r \in DOMAIN req, op \in ExecApiOps : ExecuteRequest(r, op, "conf_1", TRUE) /\ UNCHANGED io_vars
  \/ \E r \in DOMAIN req : ExecuteQueryCall(r)
  \/ \E r \in DOMAIN req, res \in {"Ok"} \cup ConnectionErrors : CreatePool(r, res)
  \/ \E r \in DOMAIN req, res \in {"Ok"} \cup ConnectionErrors : BeginTransaction(r, res)
  \/ \E r \in DOMAIN req, res \in {"Ok"} \cup ConnectionErrors \cup StatementErrors : ExecuteStatement(r, res)
  \/ \E r \in DOMAIN req, res \in {"Ok"} \cup ConnectionErrors : Commit(r, res)
  \/ \E r \in DOMAIN req : ExecuteQueryReturn(r)
  \/ \E r \in DOMAIN req : SendRequestCall(r)
  \/ \E r \in DOMAIN req, res \in TransportResults, body \in ResponseBodies : SendRequest(r, res, body)
  \/ \E r \in DOMAIN req : SendRequestReturn(r)
  \/ \E r \in DOMAIN req : Return(r) /\ UNCHANGED io_vars

SpecExec == Init /\ [][NextExec]_vars

(***************************************************************************)
(* Concurrent first requests on the connection pool                        *)
(***************************************************************************)
\* the requests in flight together on one PostgresClient
PoolReq == {"r1", "r2"}

\* the state after construction with two request slots
InitPool ==
  /\ safety_modes = [c \in ClientType |-> SAFE]
  /\ pending_confirmations = [k \in Tokens |-> NoEntry]
  /\ now = 0
  /\ req = [r \in PoolReq |-> IdleReq]
  /\ pool = NoPool
  /\ database = {}
  /\ call = [r \in PoolReq |-> NoCall]

\* ensure_pool tests `self._pool is None`, finds no pool and awaits create_pool:
\* the request is suspended in asyncpg.create_pool and others may run
EnsurePool(r) ==
  /\ call[r].state = "connect"
  /\ pool.current = 0
  /\ call' = [call EXCEPT ![r].state = "create_pool"]
  /\ UNCHANGED <<safety_modes, pending_confirmations, now, req, pool, database>>

\* one attempt of create_pool ends: the pool it returns is assigned to
\* self._pool, whatever self._pool holds by now; an error goes through the
\* except clauses and the retry decorator of create_pool
CreatePoolReturns(r, result) ==
  /\ call[r].state = "create_pool"
  /\ IF result = "Ok"
     THEN /\ pool' = [current |-> Cardinality(pool.created) + 1,
                      created |-> pool.created \cup {Cardinality(pool.created) + 1}]
          /\ call' = [call EXCEPT ![r].state = "connect", ![r].pool_attempt_number = 1]
     ELSE LET raised == create_pool_raises(result)
              decision == retry_decision(raised \in db_retry_types,
                                         call[r].pool_attempt_number, FALSE)
          IN  /\ pool' = pool
              /\ call' = [call EXCEPT ![r] =
                   CASE decision = "retry" ->
                          [call[r] EXCEPT !.pool_attempt_number = @ + 1, !.error = raised,
                                          !.cause = result]
                     [] decision = "raise" ->
                          attempt_failed([call[r] EXCEPT !.pool_attempt_number = 1],
                                         raised, result)
                     [] decision = "RetryError" ->
                          attempt_failed([call[r] EXCEPT !.pool_attempt_number = 1],
                                         "RetryError", result)]
  /\ UNCHANGED <<safety_modes, pending_confirmations, now, req, database>>

\* the batches submitted by the concurrent requests
PoolBatches == { <<"SELECT 1", "">> }

NextPool ==
  \/ \E r \in DOMAIN req, q \in PoolBatches : HandleQuery(r, q, "conf_1") /\ UNCHANGED io_vars
  \/ \E r \in DOMAIN req : ExecuteQueryCall(r)
  \/ \E r \in DOMAIN req : EnsurePool(r)
  \/ \E r \in DOMAIN req, res \in {"Ok", "OSError"} : CreatePoolReturns(r, res)
  \/ \E r \in DOMAIN req : BeginTransaction(r, "Ok")
  \/ \E r \in DOMAIN req : ExecuteStatement(r, "Ok")
  \/ \E r \in DOMAIN req : Commit(r, "Ok")
  \/ \E r \in DOMAIN req : ExecuteQueryReturn(r)
  \/ \E r \in DOMAIN req : Return(r) /\ UNCHANGED io_vars

SpecPool == InitPool /\ [][NextPool]_vars

(***************************************************************************)
(* The rows of supabase_migrations.schema_migrations                       *)
(***************************************************************************)
\* faults of the database that make the insert of a migration row fail
InsertFaults == {"ConnectionDoesNotExistError", "UndefinedTableError"}

\* the server runs the insert of the row handle_migration prepared; the table
\* is declared with `version text primary key`, so a row whose version is
\* already in the table is refused; here the database is the set of its rows
RecordMigration(r, result) ==
  /\ req[r].pc = "insert"
  /\ call[r] = NoCall
  /\ \E cause \in {IF result # "Ok" THEN result
                    ELSE IF \E row \in database : row.version = req[r].migration.version
                    THEN "UniqueViolationError"
                    ELSE "none"} :
       /\ database' = IF cause = "none" THEN database \cup {req[r].migration} ELSE database
       /\ call' = [call EXCEPT ![r] =
                     [state   |-> "returned",
                      purpose |-> "insert",
                      cause   |-> cause,
                      outcome |-> IF cause = "none" THEN "Ok"
                                  ELSE IF cause \in db_retry_types THEN "RetryError"
                                  ELSE "QueryError"]]
  /\ UNCHANGED <<safety_modes, pending_confirmations, now, req, pool>>

\* execute_query of the insert returns to handle_migration, which goes on to
\* the primary execution whatever the outcome
RecordMigrationReturn(r) ==
  /\ req[r].pc = "insert"
  /\ call[r] # NoCall
  /\ call[r].state = "returned"
  /\ MigrationInsertDone(r, call[r].outcome = "Ok")
  /\ call' = [call EXCEPT ![r] = NoCall]
  /\ UNCHANGED <<pool, database>>

\* the batches recorded and the instants they are handled at
RecordBatches ==
  { <<"SELECT 1">>,
    <<"CREATE TABLE t (id int)">>,
    <<"CREATE TABLE t (id int)", "">> }

RecordInstants == {1}

NextRecord ==
  \/ \E m \in SafetyMode : SetSafetyMode(DATABASE, m) /\ UNCHANGED io_vars
  \/ \E t \in RecordInstants : Tick(t) /\ UNCHANGED io_vars
  \/ \E r \in DOMAIN req, q \in RecordBatches : HandleQuery(r, q, "conf_1") /\ UNCHANGED io_vars
  \/ \E r \in DOMAIN req, ok \in BOOLEAN : MigrationInitDone(r, ok) /\ UNCHANGED io_vars
  \/ \E r \in DOMAIN req, res \in {"Ok"} \cup InsertFaults : RecordMigration(r, res)
  \/ \E r \in DOMAIN req : RecordMigrationReturn(r)
  \/ \E r \in DOMAIN req, res \in {"Ok", "QueryError"} : ExecuteQueryDone(r, res) /\ UNCHANGED io_vars
  \/ \E r \in DOMAIN req : Return(r) /\ UNCHANGED io_vars

SpecRecord == Init /\ [][NextRecord]_vars

(***************************************************************************)
(* Concurrent requests on the safety manager                               *)
(***************************************************************************)
\* the batches submitted by the concurrent requests
SharedBatches ==
  { <<"SELECT 1">>,
    <<"CREATE TABLE t (id int)">>,
    <<"DROP TABLE t">> }

\* two requests share the safety manager: each runs from one suspension point
\* to the next in one step (validate_operation, set_safety_mode and
\* get_stored_operation hold no await), and the steps interleave in any order
NextShared ==
  \/ \E c \in ClientType, m \in SafetyMode : SetSafetyMode(c, m) /\ UNCHANGED io_vars
  \/ \E r \in DOMAIN req, q \in SharedBatches, u \in Tokens : HandleQuery(r, q, u) /\ UNCHANGED io_vars
  \/ \E r \in DOMAIN req, k \in Tokens : HandleConfirmation(r, k) /\ UNCHANGED io_vars
  \/ \E r \in DOMAIN req, ok \in BOOLEAN : MigrationInitDone(r, ok) /\ UNCHANGED io_vars
  \/ \E r \in DOMAIN req, ok \in BOOLEAN : MigrationInsertDone(r, ok) /\ UNCHANGED io_vars
  \/ \E r \in DOMAIN req : ExecuteQueryDone(r, "Ok") /\ UNCHANGED io_vars
  \/ \E r \in DOMAIN req : Return(r) /\ UNCHANGED io_vars

SpecShared == InitPool /\ [][NextShared]_vars

(***************************************************************************)
(* The tools, each behind the feature check                                *)
(***************************************************************************)
\* what ApiClient.check_feature_access gives FeatureManager: the answer of the
\* oracle (access granted or not), or the error its request or the reading of
\* its answer raised
OracleAnswers ==
  {"granted", "denied", "APIConnectionError", "APIClientError", "APIServerError",
   "ValidationError"}

\* the classes derived from APIError
APIErrorTypes ==
  {"APIConnectionError", "APIResponseError", "APIClientError", "APIServerError",
   "UnexpectedError", "FeatureAccessError", "FeatureTemporaryError"}

\* FeatureManager.check_feature_access: what the try block raises, then the
\* except clauses in their order
check_feature_access(answer) ==
  LET raised == CASE answer = "granted" -> "none"
                  [] answer = "denied"  -> "FeatureAccessError"
                  [] OTHER              -> answer
  IN  IF raised = "none" THEN "Ok"
      ELSE IF raised \in APIErrorTypes THEN "FeatureTemporaryError"
      ELSE IF raised # "FeatureAccessError" THEN "FeatureTemporaryError"
      ELSE raised

\* FeatureManager.execute_tool as far as the feature check: the request as it
\* starts, and whether the tool is dispatched
ToolStart(tool_name, answer) ==
  [IdleReq EXCEPT !.tool = tool_name, !.access = answer, !.started_at = now]

\* FeatureManager.execute_tool refusing: the error of the check goes to the caller
ToolRefused(r, tool_name, answer) ==
  /\ req' = [req EXCEPT ![r] = [ToolStart(tool_name, answer) EXCEPT
                                  !.pc = "done", !.outcome = check_feature_access(answer)]]
  /\ UNCHANGED <<safety_modes, pending_confirmations, now>>

\* the execute_postgresql tool through FeatureManager.execute_tool
ExecutePostgresqlTool(r, answer, query, uuid) ==
  /\ req[r].pc = "idle"
  /\ IF check_feature_access(answer) # "Ok"
     THEN ToolRefused(r, "execute_postgresql", answer)
     ELSE /\ handle_query(r, [ToolStart("execute_postgresql", answer) EXCEPT
                                !.entry = "handle_query"],
                          pending_confirmations, query, FALSE, uuid)
          /\ UNCHANGED <<safety_modes, now>>

\* the send_management_api_request tool through FeatureManager.execute_tool
SendManagementApiRequestTool(r, answer, operation, uuid) ==
  /\ req[r].pc = "idle"
  /\ IF check_feature_access(answer) # "Ok"
     THEN ToolRefused(r, "send_management_api_request", answer)
     ELSE /\ execute_request(r, [ToolStart("send_management_api_request", answer) EXCEPT
                                   !.entry = "execute_request"],
                             pending_confirmations, operation, FALSE, uuid, TRUE)
          /\ UNCHANGED <<safety_modes, now>>

\* the live_dangerously tool through FeatureManager.execute_tool
LiveDangerouslyTool(r, answer, service, enable_unsafe_mode) ==
  /\ req[r].pc = "idle"
  /\ IF check_feature_access(answer) # "Ok"
     THEN ToolRefused(r, "live_dangerously", answer)
     ELSE /\ safety_modes' = [safety_modes EXCEPT
                                ![service] = IF enable_unsafe_mode THEN UNSAFE ELSE SAFE]
          /\ req' = [req EXCEPT ![r] = [ToolStart("live_dangerously", answer) EXCEPT
                                          !.pc = "done", !.outcome = "Ok"]]
          /\ UNCHANGED <<pending_confirmations, now>>

\* the batches submitted through the tools
ToolBatches == { <<"SELECT 1", "">>, <<"CREATE TABLE t (id int)", "">>, <<"DROP TABLE t", "">> }

\* the Management API operations submitted through the tools: a path template
\* may hold a placeholder in any segment
ToolApiOps ==
  { ApiOp("GET",    <<"v1", "projects", "{ref}", "functions">>, EmptyParams, "none"),
    ApiOp("POST",   <<"v1", "projects", "{ref}", "secrets">>, EmptyParams, "body1"),
    ApiOp("DELETE", <<"v1", "projects", "{ref}">>, EmptyParams, "none"),
    ApiOp("DELETE", <<"v1", "{slug}", "{ref}">>, [slug |-> "projects"], "none") }

NextTool ==
  \/ \E r \in DOMAIN req, a \in OracleAnswers, q \in ToolBatches :
       ExecutePostgresqlTool(r, a, q, "conf_1") /\ UNCHANGED io_vars
  \/ \E r \in DOMAIN req, a \in OracleAnswers, op \in ToolApiOps :
       SendManagementApiRequestTool(r, a, op, "conf_1") /\ UNCHANGED io_vars
  \/ \E r \in DOMAIN req, a \in OracleAnswers, c \in ClientType, e \in BOOLEAN :
       LiveDangerouslyTool(r, a, c, e) /\ UNCHANGED io_vars
  \/ \E r \in DOMAIN req, ok \in BOOLEAN : MigrationInitDone(r, ok) /\ UNCHANGED io_vars
  \/ \E r \in DOMAIN req, ok \in BOOLEAN : MigrationInsertDone(r, ok) /\ UNCHANGED io_vars
  \/ \E r \in DOMAIN req, res \in QueryOutcomes : ExecuteQueryDone(r, res) /\ UNCHANGED io_vars
  \/ \E r \in DOMAIN req, res \in HttpOutcomes : HttpDone(r, res) /\ UNCHANGED io_vars
  \/ \E r \in DOMAIN req : Return(r) /\ UNCHANGED io_vars

SpecTool == Init /\ [][NextTool]_vars

(***************************************************************************)
(* The safety rules shown to the caller                                    *)
(***************************************************************************)
\* a key looked up in a Python dict: a str, or a member of OperationRiskLevel;
\* a str equals no member of the IntEnum
StrKey(s) == [type |-> "str", str |-> s, level |-> 0]
LevelKey(n) == [type |-> "OperationRiskLevel", str |-> "", level |-> n]

\* SafetyManager.get_operations_by_risk_level for the API client: the method
\* map of the level when risk_level is a key of PATH_SAFETY_CONFIG, else the
\* function ends without a return statement and yields None
get_operations_by_risk_level(risk_level) ==
  IF \E k \in DOMAIN PATH_SAFETY_CONFIG : LevelKey(k) = risk_level
  THEN [is_none |-> FALSE, operations |-> PATH_SAFETY_CONFIG[risk_level.level]]
  ELSE [is_none |-> TRUE]

\* the lines "- method path" of one summary of get_safety_rules; a summary
\* without lines reads "None"
summary_lines(ops) ==
  IF ops.is_none
  THEN {}
  ELSE UNION { { <<method, ops.operations[method][i]>> :
                   i \in 1..Len(ops.operations[method]) } :
               method \in DOMAIN ops.operations }

\* SupabaseApiManager.get_safety_rules: the three summaries and the current mode
get_safety_rules(m) ==
  [extreme      |-> summary_lines(get_operations_by_risk_level(StrKey("extreme"))),
   high         |-> summary_lines(get_operations_by_risk_level(StrKey("high"))),
   medium       |-> summary_lines(get_operations_by_risk_level(StrKey("medium"))),
   current_mode |-> m[API]]

TypeOK ==
  /\ safety_modes \in [ClientType -> SafetyMode]
  /\ now \in 0..MaxTime
  /\ \A r \in DOMAIN req : req[r].pc \in {"idle", "init", "insert", "execute", "http", "done"}

(***************************************************************************)
(* Properties                                                              *)
(***************************************************************************)
\* the operation a request hands to the safety manager
OperationOf(rq) ==
  IF rq.client_type = DATABASE THEN validate_query(rq.query).result ELSE rq.api_op

\* the request reached the gate
Gated(rq) == rq.mode_read # "none"

RiskOf(rq) == get_risk_level(rq.client_type, OperationOf(rq))

\* the gate let the request through
PassedGate(rq) == Gated(rq) /\ rq.outcome \notin {"NotAllowed", "ConfirmationRequired"}

\* steps of a request that contact the database or the Management API
ContactSteps == {"init", "insert", "execute", "http"}

NoContact(rq) ==
  /\ \A i \in 1..Len(rq.trace) : rq.trace[i] \notin ContactSteps
  /\ rq.executed = <<>>
  /\ rq.sent = NoApiOp

\* the entry of token k is within the confirmation window
Live(k) ==
  /\ pending_confirmations[k] # NoEntry
  /\ now - pending_confirmations[k].timestamp <= 300

\* the operations the safety manager can be asked about
GateInputs ==
  {<<DATABASE, validate_query(q).result>> : q \in {b \in Batches : validate_query(b).error = "none"}}
    \cup {<<API, op>> : op \in ApiOps}

\* C1: an operation of risk EXTREME is never allowed: the gate answers
\* NotAllowed in either mode, confirmed or not, stores no pending confirmation
\* for it, and a request for it (DELETE /v1/projects/{ref}) sends no HTTP request
C1_ExtremeNeverAllowed ==
  /\ api_get_risk_level(ApiOp("DELETE", <<"v1", "projects", "{ref}">>, EmptyParams, "none")) = EXTREME
  /\ \A gi \in GateInputs, confirmed \in BOOLEAN, u \in Tokens :
       get_risk_level(gi[1], gi[2]) = EXTREME =>
         LET g == validate_operation(pending_confirmations, safety_modes, gi[1], gi[2],
                                     confirmed, u, now)
         IN  g.outcome = "NotAllowed" /\ g.pending = pending_confirmations
  /\ \A r \in DOMAIN req :
       (Gated(req[r]) /\ RiskOf(req[r]) = EXTREME) =>
         /\ req[r].outcome = "NotAllowed"
         /\ req[r].issued_id = "none"
         /\ NoContact(req[r])
  /\ \A k \in Tokens :
       pending_confirmations[k] # NoEntry =>
         /\ pending_confirmations[k].risk_level # EXTREME
         /\ get_risk_level(pending_confirmations[k].client_type,
                           pending_confirmations[k].operation) # EXTREME

\* C1 witness: DELETE /v1/projects/{ref} was refused in UNSAFE mode
C1_Witness ==
  \E r \in DOMAIN req :
    /\ req[r].pc = "done"
    /\ req[r].api_op.method = "DELETE"
    /\ req[r].api_op.path = <<"v1", "projects", "{ref}">>
    /\ req[r].mode_read = UNSAFE
    /\ req[r].outcome = "NotAllowed"

\* the safety-gate truth table for LOW, MEDIUM and HIGH
GateTable(risk, mode, confirmed) ==
  CASE risk = LOW    -> "Ok"
    [] risk = MEDIUM -> IF mode = UNSAFE THEN "Ok" ELSE "NotAllowed"
    [] risk = HIGH   -> IF mode # UNSAFE THEN "NotAllowed"
                        ELSE IF confirmed THEN "Ok" ELSE "ConfirmationRequired"
    [] OTHER         -> "NotAllowed"

\* C2: the outcome of validate_operation is the truth table's function of
\* (risk, mode of the client, confirmed) for LOW, MEDIUM and HIGH, and a
\* ConfirmationRequired answer carries a token whose pending entry holds the operation
C2_TruthTable ==
  /\ \A gi \in GateInputs, confirmed \in BOOLEAN, u \in Tokens :
       LET risk == get_risk_level(gi[1], gi[2])
           g == validate_operation(pending_confirmations, safety_modes, gi[1], gi[2],
                                   confirmed, u, now)
       IN  risk \in {LOW, MEDIUM, HIGH} =>
             /\ g.outcome = GateTable(risk, safety_modes[gi[1]], confirmed)
             /\ g.outcome = "ConfirmationRequired" =>
                  /\ g.confirmation_id = u
                  /\ g.pending[u].operation = gi[2]
                  /\ g.pending[u].timestamp = now
  /\ \A r \in DOMAIN req :
       (Gated(req[r]) /\ RiskOf(req[r]) \in {LOW, MEDIUM, HIGH}) =>
         LET expected == GateTable(RiskOf(req[r]), req[r].mode_read, req[r].has_confirmation)
         IN  /\ expected = "Ok" <=> PassedGate(req[r])
             /\ expected # "Ok" => req[r].outcome = expected
             /\ expected = "ConfirmationRequired" <=> req[r].issued_id \in Tokens

\* C2 witness: a confirmed HIGH operation passed the gate in UNSAFE mode
C2_Witness ==
  \E r \in DOMAIN req :
    /\ Gated(req[r])
    /\ RiskOf(req[r]) = HIGH
    /\ req[r].mode_read = UNSAFE
    /\ req[r].has_confirmation
    /\ PassedGate(req[r])

\* C3: a batch of highest risk MEDIUM or more gated while the DATABASE mode is
\* SAFE ends with NotAllowed, and the request contacts the database neither
\* for the migration nor for the batch
C3_SafeModeBlocks ==
  \A r \in DOMAIN req :
    (/\ req[r].client_type = DATABASE
     /\ Gated(req[r])
     /\ req[r].mode_read = SAFE
     /\ validate_query(req[r].query).result.highest_risk_level >= MEDIUM) =>
       /\ req[r].pc = "done"
       /\ req[r].outcome = "NotAllowed"
       /\ req[r].trace = <<"validate", "gate">>
       /\ NoContact(req[r])

\* C3 witness: an INSERT was refused in SAFE mode
C3_Witness ==
  \E r \in DOMAIN req :
    /\ req[r].query = <<"INSERT INTO t VALUES (1)">>
    /\ req[r].mode_read = SAFE
    /\ req[r].outcome = "NotAllowed"

\* the step starts a request in slot r
Starts(r) == req[r].pc = "idle" /\ req'[r].pc # "idle"

\* C4: an unconfirmed HIGH-risk operation submitted in UNSAFE mode is not
\* executed: the gate answers ConfirmationRequired with a token, one pending
\* entry holding the operation is written under that token and no other entry
\* is added, the request contacts neither the database nor the API, and a
\* HIGH-risk operation is only ever executed by the redemption of a token
C4_HighNeedsConfirmation ==
  [][ /\ \A r \in DOMAIN req :
           (/\ Starts(r)
            /\ Gated(req'[r])
            /\ RiskOf(req'[r]) = HIGH
            /\ req'[r].mode_read = UNSAFE
            /\ ~req'[r].has_confirmation) =>
              LET k == req'[r].issued_id
              IN  /\ req'[r].pc = "done"
                  /\ req'[r].outcome = "ConfirmationRequired"
                  /\ k \in Tokens
                  /\ pending_confirmations'[k] =
                       [operation   |-> OperationOf(req'[r]),
                        client_type |-> req'[r].client_type,
                        risk_level  |-> HIGH,
                        timestamp   |-> now]
                  /\ \A j \in Tokens \ {k} :
                       pending_confirmations'[j] \in {pending_confirmations[j], NoEntry}
                  /\ NoContact(req'[r])
      /\ \A r \in DOMAIN req :
           (Gated(req'[r]) /\ RiskOf(req'[r]) = HIGH /\ ~NoContact(req'[r])) =>
             /\ req'[r].has_confirmation
             /\ req'[r].entry = "handle_confirmation"
             /\ req'[r].confirmation_id \in Tokens
    ]_vars

\* C4 witness: DROP TABLE t was answered with a token and is pending, not executed
C4_Witness ==
  \E r \in DOMAIN req :
    /\ req[r].query = <<"DROP TABLE t">>
    /\ req[r].outcome = "ConfirmationRequired"
    /\ req[r].issued_id \in Tokens
    /\ pending_confirmations[req[r].issued_id] # NoEntry
    /\ pending_confirmations[req[r].issued_id].operation = OperationOf(req[r])
    /\ NoContact(req[r])

\* the step is a redemption in slot r
Redeems(r) == Starts(r) /\ req'[r].entry = "handle_confirmation"

\* the token presented is pending and at most 300 s old
WithinWindow(k) ==
  /\ k \in Tokens
  /\ pending_confirmations[k] # NoEntry
  /\ now - pending_confirmations[k].timestamp <= 300

\* C5: a redemption finds the entry of a token created at t0 at every time t
\* with t - t0 <= 300; later (or for a token that is not pending) the lookup
\* returns none and handle_confirmation fails without executing anything
C5_ConfirmationWindow ==
  [][ \A r \in DOMAIN req :
        Redeems(r) =>
          IF WithinWindow(req'[r].confirmation_id)
          THEN req'[r].outcome # "InvalidConfirmation"
          ELSE /\ req'[r].pc = "done"
               /\ req'[r].outcome = "InvalidConfirmation"
               /\ req'[r].trace = <<>>
               /\ NoContact(req'[r])
    ]_vars

\* C5 witness: a token was redeemed exactly 300 s after it was created
C5_Witness ==
  \E r \in DOMAIN req :
    /\ req[r].entry = "handle_confirmation"
    /\ req[r].confirmation_id \in Tokens
    /\ pending_confirmations[req[r].confirmation_id] # NoEntry
    /\ req[r].started_at - pending_confirmations[req[r].confirmation_id].timestamp = 300
    /\ PassedGate(req[r])

\* C6 (as claimed): redeeming a token runs the operation that created it,
\* whatever was submitted, stored or redeemed in between: the operation under
\* a live token never changes, and a redemption runs the operation under its token
C6_RedeemsSameOperation ==
  [][ /\ \A k \in Tokens :
           (Live(k) /\ pending_confirmations'[k] # NoEntry) =>
             /\ pending_confirmations'[k].operation = pending_confirmations[k].operation
             /\ pending_confirmations'[k].client_type = pending_confirmations[k].client_type
      /\ \A r \in DOMAIN req :
           (Redeems(r) /\ Gated(req'[r])) =>
             OperationOf(req'[r]) = pending_confirmations[req'[r].confirmation_id].operation
    ]_vars

\* C7 (as claimed): storing a confirmation never returns a token that is
\* still live in the pending store
C7_TokensUnique ==
  [][ \A r \in DOMAIN req :
        (Starts(r) /\ req'[r].issued_id \in Tokens) => ~Live(req'[r].issued_id)
    ]_vars

\* the statement texts that are transaction control
TCLTexts == {"BEGIN", "COMMIT", "ROLLBACK", "SAVEPOINT s"}

HasTCL(query) == \E i \in 1..Len(query) : query[i] \in TCLTexts

\* C8: a batch with a transaction-control statement anywhere in it is
\* rejected by validation in either mode: the request ends there, it is not
\* gated, nothing is stored as pending for it, nothing is recorded or executed
C8_TCLRejected ==
  /\ \A r \in DOMAIN req :
       (req[r].client_type = DATABASE /\ req[r].pc # "idle" /\ HasTCL(req[r].query)) =>
         /\ req[r].pc = "done"
         /\ req[r].outcome = "ValidationError"
         /\ req[r].trace = <<"validate">>
         /\ ~Gated(req[r])
         /\ req[r].issued_id = "none"
         /\ NoContact(req[r])
  /\ \A k \in Tokens :
       (pending_confirmations[k] # NoEntry /\ pending_confirmations[k].client_type = DATABASE) =>
         ~HasTCL(pending_confirmations[k].operation.original_query)

\* C8 witness: a batch ending in SAVEPOINT was rejected while the mode was UNSAFE
C8_Witness ==
  \E r \in DOMAIN req :
    /\ req[r].query = <<"DROP TABLE t", "SAVEPOINT s">>
    /\ req[r].outcome = "ValidationError"
    /\ safety_modes[DATABASE] = UNSAFE

IsPrefix(s, t) == Len(s) <= Len(t) /\ \A i \in 1..Len(s) : s[i] = t[i]

\* C9: the steps of one handle_query request run in the order validate, gate,
\* record-migration (init, insert), execute, each at most once: the gate only
\* after a successful validation, recording only after the gate returned Ok,
\* the primary batch only after recording has finished
C9_StepOrder ==
  \A r \in DOMAIN req :
    req[r].client_type = DATABASE =>
      LET t == req[r].trace
      IN  /\ \/ IsPrefix(t, <<"validate", "gate", "init", "insert", "execute">>)
             \/ IsPrefix(t, <<"validate", "gate", "execute">>)
          /\ Len(t) >= 2 => validate_query(req[r].query).error = "none"
          /\ Len(t) >= 3 =>
               /\ PassedGate(req[r])
               /\ GateTable(RiskOf(req[r]), req[r].mode_read, req[r].has_confirmation) = "Ok"
               /\ t[3] = "init" <=> needs_migration(OperationOf(req[r]))
          /\ req[r].pc = "execute" => t[Len(t)] = "execute"
          /\ (req[r].pc = "done" /\ req[r].outcome = "Ok") => t[Len(t)] = "execute"

\* C9 witness: a batch that needs migration went through all steps
C9_Witness ==
  \E r \in DOMAIN req :
    /\ req[r].pc = "done"
    /\ req[r].outcome = "Ok"
    /\ req[r].trace = <<"validate", "gate", "init", "insert", "execute">>

\* C10: the readonly flag of the primary execution is TRUE exactly when the
\* DATABASE mode read by handle_query_execution is SAFE
C10_ReadonlyIffSafe ==
  [][ \A r \in DOMAIN req :
        (req[r].pc # "execute" /\ req'[r].pc = "execute") =>
          /\ req'[r].readonly <=> safety_modes[DATABASE] = SAFE
          /\ ~req'[r].readonly <=> safety_modes[DATABASE] = UNSAFE
    ]_vars

\* C10 witness: a primary batch is being executed read-write in UNSAFE mode
C10_Witness ==
  \E r \in DOMAIN req :
    /\ req[r].pc = "execute"
    /\ ~req[r].readonly
    /\ req[r].executed # <<>>
    /\ safety_modes[DATABASE] = UNSAFE
    /\ safety_modes[API] = SAFE

\* the statements of a sequence of texts that change the database
Writes(texts) ==
  {texts[j] : j \in {j \in 1..Len(texts) : texts[j] # "" /\ IsWrite(texts[j])}}

\* C11: execute_query runs the statements of the batch in their order inside
\* one transaction: the database changes only when the transaction commits
\* after every statement ran, and then by the whole batch; when an attempt
\* fails nothing of the batch takes effect, and a statement the server answers
\* with an error ends the call with the classified error (PermissionError for
\* insufficient privilege, QueryError otherwise)
C11_BatchInOneTransaction ==
  [][ \A r \in DOMAIN req :
        /\ call'[r].state = "transaction" =>
              /\ call'[r].i <= Len(call'[r].todo) + 1
              /\ call'[r].applied = SubSeq(call'[r].todo, 1, call'[r].i - 1)
        /\ database' # database =>
              /\ call[r].state = "transaction"
              /\ call[r].applied = call[r].todo
              /\ database' = database \cup Writes(call[r].todo)
              /\ call'[r].state = "returned"
              /\ call'[r].outcome = "Ok"
        /\ (call[r].state = "transaction" /\ call'[r].state # "transaction"
                                          /\ call'[r].outcome # "Ok") =>
              /\ database' = database
              /\ call'[r].applied = <<>>
              /\ (call[r].i <= Len(call[r].todo) /\ call'[r].cause \in PostgresErrors) =>
                    /\ call'[r].state = "returned"
                    /\ call'[r].outcome = IF call'[r].cause = "InsufficientPrivilegeError"
                                           THEN "PermissionError" ELSE "QueryError"
    ]_vars

\* C11 witness: the second statement of a read-write batch failed after the
\* first had run, the call raised QueryError and the first statement left no effect
C11_Witness ==
  \E r \in DOMAIN req :
    /\ call[r].state = "returned"
    /\ call[r].purpose = "execute"
    /\ ~call[r].readonly
    /\ call[r].todo = <<"CREATE TABLE t (id int)", "INSERT INTO t VALUES (1)">>
    /\ call[r].i = 2
    /\ call[r].cause = "UndefinedTableError"
    /\ call[r].outcome = "QueryError"
    /\ "CREATE TABLE t (id int)" \notin database

\* the gate's answer for one statement of risk `risk` submitted alone
SingleStatementGate(risk, mode, has_confirmation, operation) ==
  validate_operation_at(risk, pending_confirmations,
                        [safety_modes EXCEPT ![DATABASE] = mode], DATABASE, operation,
                        has_confirmation, "none", now).outcome

MigrationWrites == Writes(InitMigrationsQuery) \cup Writes(CreateMigrationQuery)

\* the batch holds a statement classified as needing a migration
HoldsMigrationStatement(query) ==
  \E i \in 1..Len(validate_query(query).result.statements) :
    validate_query(query).result.statements[i].needs_migration

\* C14: execute_query is called for the migration schema or the migration
\* row only on behalf of a batch that holds a statement needing a migration;
\* the call for the schema comes first and the call for the row second, both
\* before the batch; and a step changes the migration schema or writes a
\* migration row only as the commit of such a call, so a batch of SELECTs
\* leaves no bookkeeping row
C14_RecorderOnlyForMigrations ==
  [][ \A r \in DOMAIN req :
        /\ (call'[r] # NoCall /\ call'[r].purpose \in {"init", "insert"}) =>
              /\ HoldsMigrationStatement(req'[r].query)
              /\ req'[r].pc = call'[r].purpose
        /\ req'[r].pc = "init" => req'[r].trace = <<"validate", "gate", "init">>
        /\ req'[r].pc = "insert" => req'[r].trace = <<"validate", "gate", "init", "insert">>
        /\ (req'[r].pc = "execute" /\ ~HoldsMigrationStatement(req'[r].query)) =>
              req'[r].trace = <<"validate", "gate", "execute">>
        /\ (database' \ database) \cap MigrationWrites # {} =>
              /\ call[r].purpose \in {"init", "insert"}
              /\ HoldsMigrationStatement(req[r].query)
              /\ database' \ database \subseteq
                    (IF call[r].purpose = "init" THEN Writes(InitMigrationsQuery)
                     ELSE Writes(CreateMigrationQuery))
    ]_vars

\* C14 witness: SELECT 1; was executed without a migration step while the
\* database holds the schema and the row an earlier batch had recorded
C14_Witness ==
  \E r \in DOMAIN req :
    /\ req[r].pc = "done"
    /\ req[r].query = <<"SELECT 1", "">>
    /\ req[r].trace = <<"validate", "gate", "execute">>
    /\ req[r].outcome = "Ok"
    /\ MigrationWrites \subseteq database

SetSafetyModeBreaks(c, m) ==
  /\ SetSafetyMode(c, m)
  /\ UNCHANGED io_vars
  /\ ~ /\ safety_modes'[c] = m
        /\ \A d \in ClientType \ {c} : safety_modes'[d] = safety_modes[d]
        /\ pending_confirmations' = pending_confirmations
        /\ req' = req
        /\ now' = now

\* set_safety_mode(c, m) changes the state
SetSafetyModeChanges(c, m) ==
  /\ SetSafetyMode(c, m)
  /\ UNCHANGED io_vars
  /\ vars' # vars

\* C16: set_safety_mode(c, m) sets the mode of c to m and nothing else: the
\* mode of the other client kind, the pending confirmations and the requests
\* in progress stay as they are; and setting the mode a client already has
\* changes nothing
C16_SetModeLocal ==
  \A c \in ClientType, m \in SafetyMode :
    /\ ~ENABLED SetSafetyModeBreaks(c, m)
    /\ safety_modes[c] = m => ~ENABLED SetSafetyModeChanges(c, m)

\* C16 witness: the DATABASE mode was set back to SAFE while the API mode is
\* UNSAFE, and the confirmation requested for a DATABASE batch is still pending
C16_Witness ==
  /\ safety_modes[DATABASE] = SAFE
  /\ safety_modes[API] = UNSAFE
  /\ \E k \in Tokens :
       /\ pending_confirmations[k] # NoEntry
       /\ pending_confirmations[k].client_type = DATABASE

\* C17 (as claimed): when execute_query returns for the batch of a request,
\* its results hold exactly one entry per statement of the batch, in the order
\* of the statements, whether or not the last statement ends with a semicolon
C17_OneResultPerStatement ==
  \A r \in DOMAIN req :
    (call[r].state = "returned" /\ call[r].purpose = "execute" /\ call[r].outcome = "Ok") =>
      LET parse_tree == parse_sql(req[r].query)
      IN  /\ Len(call[r].results) = Len(parse_tree)
          /\ \A j \in 1..Len(parse_tree) : call[r].results[j] = parse_tree[j].text

\* C18 (as claimed): a send that fails with a network error is attempted
\* again until three attempts have failed, and APIConnectionError is raised
\* only after the third failure
C18_ThreeSendAttempts ==
  [][ \A r \in DOMAIN req :
        (call[r].state = "send" /\ call'[r] # call[r] /\ call'[r].cause = "NetworkError") =>
          IF call[r].attempt_number < stop_after_attempt
          THEN /\ call'[r].state = "send"
               /\ call'[r].attempt_number = call[r].attempt_number + 1
          ELSE /\ call'[r].state = "returned"
               /\ call'[r].outcome = "APIConnectionError"
    ]_vars

\* the step is a failed attempt of the call of request r
AttemptFails(r) ==
  /\ call[r].state \in {"connect", "transaction"}
  /\ call'[r] # NoCall
  /\ \/ call'[r].state = "returned" /\ call'[r].outcome # "Ok"
     \/ call'[r].attempt_number > call[r].attempt_number
     \/ call'[r].pool_attempt_number > call[r].pool_attempt_number

\* C19 (as claimed): an attempt to create the pool or to execute the batch
\* that fails with a connection-lost, interface, too-many-connections or OS
\* network error is followed by another attempt while fewer than three were
\* made; the third failed attempt raises the error to the caller
C19_ConnectionErrorsRetried ==
  [][ \A r \in DOMAIN req :
        (AttemptFails(r) /\ call'[r].cause \in ConnectionErrors) =>
          LET creating == call[r].state = "connect" /\ pool.current = 0
              made == IF creating THEN call[r].pool_attempt_number
                      ELSE call[r].attempt_number
          IN  IF made < stop_after_attempt
              THEN /\ call'[r].state = "connect"
                   /\ IF creating
                      THEN call'[r].pool_attempt_number = made + 1
                      ELSE call'[r].attempt_number = made + 1
              ELSE /\ call'[r].state = "returned"
                   /\ call'[r].outcome \in {call'[r].cause, "ConnectionError"}
    ]_vars

\* the errors of a statement whose recurrence is deterministic
DeterministicErrors ==
  {"InsufficientPrivilegeError", "UndefinedTableError", "UndefinedColumnError",
   "PostgresSyntaxError"}

\* C20: a statement the server refuses for insufficient privilege, an
\* undefined table or column or a syntax error ends the call in the same
\* attempt with PermissionError or QueryError, which reaches the caller of
\* the batch; and a request answered with a validation error or a safety
\* denial made its validation and its gate once and called neither the
\* database nor the Management API
C20_DeterministicErrorsNotRetried ==
  [][ \A r \in DOMAIN req :
        /\ (AttemptFails(r) /\ call'[r].cause \in DeterministicErrors) =>
              /\ call'[r].state = "returned"
              /\ call'[r].attempt_number = call[r].attempt_number
              /\ call'[r].outcome = IF call'[r].cause = "InsufficientPrivilegeError"
                                     THEN "PermissionError" ELSE "QueryError"
        /\ (/\ call[r].state = "returned"
            /\ call[r].purpose = "execute"
            /\ call[r].cause \in DeterministicErrors
            /\ call'[r] = NoCall) =>
              /\ req'[r].pc = "done"
              /\ req'[r].outcome = call[r].outcome
        /\ req'[r].outcome \in {"ValidationError", "NotAllowed", "ConfirmationRequired"} =>
              /\ req'[r].pc = "done"
              /\ req'[r].trace \in {<<"validate">>, <<"validate", "gate">>, <<"gate">>}
              /\ NoContact(req'[r])
              /\ call'[r] = NoCall
    ]_vars

\* C20 witness: the first attempt of the batch met a permission-denied
\* error and the call ended with PermissionError without a second attempt
C20_Witness ==
  \E r \in DOMAIN req :
    /\ call[r].state = "returned"
    /\ call[r].purpose = "execute"
    /\ call[r].cause = "InsufficientPrivilegeError"
    /\ call[r].attempt_number = 1
    /\ call[r].outcome = "PermissionError"

\* the step is the answer of the Management API to the request of r: a
\* response whose status is not a success
ErrorResponse(r) ==
  /\ call[r].state = "send"
  /\ call'[r] # call[r]
  /\ call'[r].status \in {"3xx", "4xx", "5xx"}

\* the error the status of a response stands for
StatusError(status) ==
  CASE status = "4xx" -> "APIClientError"
    [] status = "5xx" -> "APIServerError"
    [] OTHER          -> "UnexpectedError"

SubstPaths ==
  { <<"v1", "projects", "{ref}", "functions">>,
    <<"v1", "projects", "{ref}", "functions", "{function_slug}">>,
    <<"v1", "projects", "{ref}", "branches", "{branch_id}">>,
    <<"v1", "organizations", "{slug}">>,
    <<"v1", "projects", "{ref}", "tables", "{table}">>,
    <<"v1", "projects">> }

SubstParams ==
  { EmptyParams,
    [ref |-> "other"],
    [function_slug |-> "hello"],
    [function_slug |-> "hello", ref |-> "other"],
    [function_slug |-> "hello", id |-> "7"],
    [slug |-> "org"],
    [table |-> "users"],
    [branch_id |-> "b1"] }

\* the segment is a {name} placeholder
IsBraced(segment) == segment \in BracedSegments

\* the placeholder names of the segments of a path
NamesIn(path) ==
  {k \in PathPlaceholder \cup {"table"} :
     \E i \in 1..Len(path) : path[i] = (IF k = "table" THEN "{table}" ELSE Brace(k))}

ApiRules ==
  UNION { UNION { { [risk |-> risk, method |-> method,
                     pattern |-> PATH_SAFETY_CONFIG[risk][method][i]] :
                    i \in 1..Len(PATH_SAFETY_CONFIG[risk][method]) } :
                  method \in DOMAIN PATH_SAFETY_CONFIG[risk] } :
          risk \in {EXTREME, HIGH, MEDIUM} }

\* the pattern with each {name} segment replaced by the value
Instantiate(pattern, value) ==
  [i \in 1..Len(pattern) |-> IF IsBraced(pattern[i]) THEN value ELSE pattern[i]]

\* the path is obtained from the pattern by replacing each {name} segment
\* with a non-empty run of characters other than the slash
ObtainedFrom(pattern, path) ==
  /\ Len(path) = Len(pattern)
  /\ \A i \in 1..Len(pattern) :
       IF IsBraced(pattern[i]) THEN path[i] # "" ELSE path[i] = pattern[i]

\* the concrete paths a rule is tried on: its instances, and its instance cut
\* short or extended by a segment
PathsTried(pattern) ==
  { Instantiate(pattern, "abc123"), Instantiate(pattern, ""),
    Append(Instantiate(pattern, "abc123"), "extra"),
    SubSeq(Instantiate(pattern, "abc123"), 1, Len(pattern) - 1) }

\* C23 (as claimed): for every rule of the API rule table, a concrete path
\* matches the pattern of the rule exactly when it is obtained from the
\* pattern by replacing each {name} segment, whatever the name, with a
\* non-empty segment, and a path that matches is given at least the risk of the rule
C23_PatternMatchesInstances ==
  /\ \A rule \in ApiRules :
       \A path \in PathsTried(rule.pattern) :
         /\ PathMatchesPattern(rule.pattern, path) <=> ObtainedFrom(rule.pattern, path)
         /\ ObtainedFrom(rule.pattern, path) =>
              api_get_risk_level(ApiOp(rule.method, path, EmptyParams, "none")) >= rule.risk
  /\ \A r \in DOMAIN req :
       (req[r].client_type = API /\ Gated(req[r])) =>
         \A rule \in ApiRules :
           (rule.method = req[r].api_op.method
              /\ ObtainedFrom(rule.pattern, req[r].api_op.path)) =>
             RiskOf(req[r]) >= rule.risk

\* the HTTP methods, spelled in upper case as HTTPMethod spells them
UpperMethods == {"GET", "POST", "PUT", "PATCH", "DELETE", "HEAD", "OPTIONS"}

\* str.lower of a method
LowerCase(method) ==
  CASE method = "GET"     -> "get"
    [] method = "POST"    -> "post"
    [] method = "PUT"     -> "put"
    [] method = "PATCH"   -> "patch"
    [] method = "DELETE"  -> "delete"
    [] method = "HEAD"    -> "head"
    [] method = "OPTIONS" -> "options"
    [] OTHER              -> method

\* str.upper of a method
UpperCase(method) ==
  IF \E m \in UpperMethods : LowerCase(m) = method
  THEN CHOOSE m \in UpperMethods : LowerCase(m) = method
  ELSE method

\* the paths of the rule table as callers submit them, and a path of no rule
LookupPaths ==
  {rule.pattern : rule \in ApiRules} \cup {<<"v1", "some", "unknown", "path">>}

\* C24 (as claimed): get_risk_level gives a method spelled in lower case the
\* risk it gives the same method spelled in upper case, for every method and
\* path, and the risk a request is gated at is the risk of the upper-case
\* spelling of its method
C24_MethodCaseInsensitive ==
  /\ \A method \in UpperMethods, path \in LookupPaths :
       api_get_risk_level(ApiOp(LowerCase(method), path, EmptyParams, "none")) =
         api_get_risk_level(ApiOp(method, path, EmptyParams, "none"))
  /\ \A r \in DOMAIN req :
       (req[r].client_type = API /\ Gated(req[r])) =>
         RiskOf(req[r]) =
           api_get_risk_level([req[r].api_op EXCEPT !.method = UpperCase(@)])

\* the node types the parser can hand to the classifier: those of the two
\* tables and some that neither table names
NodeTypes ==
  DOMAIN STATEMENT_CONFIG \cup DOMAIN CommandMapping
    \cup {"CallStmt", "DoStmt", "DropdbStmt", "AlterSystemStmt"}

\* a parse node of the type
NodeOf(stmt_type) == {[type |-> stmt_type, is_from |-> f] : f \in BOOLEAN}

\* C25: every statement whose command is DROP or TRUNCATE is classified with
\* risk HIGH, whatever its node type, and a batch that holds one is gated at HIGH
C25_DropTruncateHigh ==
  /\ \A stmt_type \in NodeTypes :
       map_to_command(stmt_type) \in {"DROP", "TRUNCATE"} =>
         \A node \in NodeOf(stmt_type) : classify_statement(stmt_type, node).risk_level = HIGH
  /\ \A text \in {"DROP TABLE t", "TRUNCATE t"} :
       LET statement == ValidatedStatement(RawStmt(<<text, "">>, 1))
       IN  statement.command \in {"DROP", "TRUNCATE"} /\ statement.risk_level = HIGH
  /\ \A r \in DOMAIN req :
       (req[r].client_type = DATABASE /\ Gated(req[r])) =>
         LET statements == validate_query(req[r].query).result.statements
         IN  \A i \in 1..Len(statements) :
               statements[i].command \in {"DROP", "TRUNCATE"} =>
                 /\ statements[i].risk_level = HIGH
                 /\ RiskOf(req[r]) = HIGH

\* C25 witness: the batch SELECT 1; DROP TABLE t was gated, its second
\* statement has the command DROP and the risk HIGH
C25_Witness ==
  \E r \in DOMAIN req :
    /\ req[r].query = <<"SELECT 1", "DROP TABLE t">>
    /\ Gated(req[r])
    /\ validate_query(req[r].query).result.statements[2].command = "DROP"
    /\ validate_query(req[r].query).result.statements[2].risk_level = HIGH
    /\ RiskOf(req[r]) = HIGH

\* the batch holds a statement whose node type is among the types
HoldsTypeIn(query, types) ==
  \E i \in 1..Len(parse_sql(query)) : parse_sql(query)[i].stmt.type \in types

\* the node types the classification table does not name
UnknownTypes == NodeTypes \ DOMAIN STATEMENT_CONFIG

\* C26 (as claimed): a statement whose node type the classification table
\* does not name is classified OTHER with risk MEDIUM and no migration, and a
\* batch that holds such a statement, gated while the DATABASE mode is SAFE,
\* is refused
C26_UnknownTypeMedium ==
  /\ \A stmt_type \in UnknownTypes :
       \A node \in NodeOf(stmt_type) :
         classify_statement(stmt_type, node) =
           [category |-> "OTHER", risk_level |-> MEDIUM, needs_migration |-> FALSE]
  /\ \A r \in DOMAIN req :
       (/\ req[r].client_type = DATABASE
        /\ Gated(req[r])
        /\ HoldsTypeIn(req[r].query, UnknownTypes)) =>
          /\ RiskOf(req[r]) >= MEDIUM
          /\ req[r].mode_read = SAFE => req[r].outcome = "NotAllowed"

\* C26 (amended): a statement whose node type the classification table does
\* not name is classified OTHER with risk MEDIUM and no migration, except a
\* CopyStmt, which the table does not name either and which is classified
\* DQL with risk LOW when it copies out and DML with risk MEDIUM when it
\* copies in; a batch that holds a statement of an unnamed type other than
\* CopyStmt, gated while the DATABASE mode is SAFE, is refused and reaches the
\* database neither for a migration nor for the batch
C26_UnknownTypeMediumButCopy ==
  /\ \A stmt_type \in UnknownTypes \ {"CopyStmt"} :
       \A node \in NodeOf(stmt_type) :
         classify_statement(stmt_type, node) =
           [category |-> "OTHER", risk_level |-> MEDIUM, needs_migration |-> FALSE]
  /\ "CopyStmt" \in UnknownTypes
  /\ ValidatedStatement(RawStmt(<<"COPY t TO STDOUT", "">>, 1)).category = "DQL"
  /\ ValidatedStatement(RawStmt(<<"COPY t TO STDOUT", "">>, 1)).risk_level = LOW
  /\ ValidatedStatement(RawStmt(<<"COPY t FROM STDIN", "">>, 1)).category = "DML"
  /\ ValidatedStatement(RawStmt(<<"COPY t FROM STDIN", "">>, 1)).risk_level = MEDIUM
  /\ \A r \in DOMAIN req :
       (/\ req[r].client_type = DATABASE
        /\ Gated(req[r])
        /\ HoldsTypeIn(req[r].query, UnknownTypes \ {"CopyStmt"})) =>
          /\ RiskOf(req[r]) >= MEDIUM
          /\ req[r].mode_read = SAFE =>
               /\ req[r].pc = "done"
               /\ req[r].outcome = "NotAllowed"
               /\ NoContact(req[r])

\* C26 witness: CALL p(), of a node type the table does not name, was
\* refused in SAFE mode
C26_Witness ==
  \E r \in DOMAIN req :
    /\ req[r].query = <<"CALL p()">>
    /\ HoldsTypeIn(req[r].query, UnknownTypes \ {"CopyStmt"})
    /\ Gated(req[r])
    /\ req[r].mode_read = SAFE
    /\ req[r].outcome = "NotAllowed"
    /\ NoContact(req[r])

\* the oracle gave no answer: its request failed or its answer could not be read
OracleUnreachable == OracleAnswers \ {"granted", "denied"}

\* the tool of the request has done nothing: no gate was asked, nothing was
\* sent to the database or to the Management API
ToolNotRun(rq) == ~Gated(rq) /\ NoContact(rq) /\ rq.trace = <<>>

\* C27: when the oracle answers that access is not granted the caller gets
\* FeatureAccessError; FeatureTemporaryError is given only when the oracle
\* could not be reached; in both cases the tool asked for is not run
C27_FeatureCheckOutcome ==
  \A r \in DOMAIN req :
    /\ req[r].access = "denied" =>
         req[r].pc = "done" /\ req[r].outcome = "FeatureAccessError"
    /\ req[r].outcome = "FeatureTemporaryError" => req[r].access \in OracleUnreachable
    /\ req[r].outcome \in {"FeatureAccessError", "FeatureTemporaryError"} =>
         ToolNotRun(req[r])

\* the part of C27 the code keeps: a request the oracle did not grant ends at
\* once with an error of the feature check and its tool is not run
C27_DeniedToolNotRun ==
  \A r \in DOMAIN req :
    req[r].access \notin {"none", "granted"} =>
      /\ req[r].pc = "done"
      /\ req[r].outcome \in {"FeatureAccessError", "FeatureTemporaryError"}
      /\ ToolNotRun(req[r])

\* the names get_safety_rules asks the three levels by
LevelNames == [extreme |-> EXTREME, high |-> HIGH, medium |-> MEDIUM]

\* the rules the table configures at a level, as lines "- method pattern"
ConfiguredAt(risk) ==
  { <<rule.method, rule.pattern>> : rule \in {x \in ApiRules : x.risk = risk} }

\* C28: asked as the safety-rules surface asks it, the introspection
\* operation returns for each of EXTREME, HIGH and MEDIUM the map from method
\* to patterns that the API rule table configures at that level, and the
\* surface lists every configured rule next to the current API mode
C28_IntrospectionListsRules ==
  /\ \A name \in DOMAIN LevelNames :
       \E ops \in {get_operations_by_risk_level(StrKey(name))} :
         /\ ~ops.is_none
         /\ ops.operations = PATH_SAFETY_CONFIG[LevelNames[name]]
  /\ \E rules \in {get_safety_rules(safety_modes)} :
       /\ rules.extreme = ConfiguredAt(EXTREME)
       /\ rules.high = ConfiguredAt(HIGH)
       /\ rules.medium = ConfiguredAt(MEDIUM)
       /\ rules.current_mode = safety_modes[API]

\* C29: redeeming the token of the batch "DROP TABLE t" records the migration
\* row with a version of 14 digits, the name drop_table_public_t and the
\* batch text as statements, and then hands DROP TABLE t to the executor in a
\* read-write transaction (the DATABASE mode being UNSAFE at that moment)
C29_DropTableRedeemed ==
  [][\A r \in DOMAIN req :
       (/\ req[r].entry = "handle_confirmation"
        /\ req[r].query = <<"DROP TABLE t">>
        /\ req[r].pc = "insert"
        /\ req'[r].pc = "execute") =>
          /\ req[r].migration.version.digits = 14
          /\ req[r].migration.name = <<"drop", "table", "public", "t">>
          /\ req[r].migration.statements = <<"DROP TABLE t">>
          /\ req'[r].executed = <<"DROP TABLE t">>
          /\ safety_modes[DATABASE] = UNSAFE => ~req'[r].readonly]_vars

\* C30: the gate judges the request that is sent: whenever an HTTP request
\* has been sent, the risk of its method and concrete path is one the gate
\* allows in the API mode read for the request, and is confirmed when that
\* risk needs a confirmation
C30_GateJudgesSentRequest ==
  \A r \in DOMAIN req :
    req[r].sent # NoApiOp =>
      \E risk \in {api_get_risk_level(req[r].sent)} :
        /\ is_operation_allowed(risk, req[r].mode_read)
        /\ needs_confirmation(risk) => req[r].has_confirmation

\* C31: a redemption is gated again under the mode in force when it is made:
\* a DATABASE token that is still pending (it was issued while the mode was
\* UNSAFE) and is redeemed while the DATABASE mode is SAFE is refused with
\* NotAllowed; no migration is prepared, nothing reaches the database, and
\* the token stays pending
C31_RedemptionRegated ==
  [][ \A r \in DOMAIN req :
        (/\ Redeems(r)
         /\ req'[r].client_type = DATABASE
         /\ WithinWindow(req'[r].confirmation_id)
         /\ pending_confirmations[req'[r].confirmation_id].client_type = DATABASE
         /\ safety_modes[DATABASE] = SAFE) =>
           /\ req'[r].pc = "done"
           /\ req'[r].outcome = "NotAllowed"
           /\ req'[r].has_confirmation
           /\ req'[r].migration = NoMigration
           /\ NoContact(req'[r])
           /\ pending_confirmations'[req'[r].confirmation_id] =
                pending_confirmations[req'[r].confirmation_id]
    ]_vars

\* C31 witness: the token of DROP TABLE t was redeemed in SAFE mode and refused
C31_Witness ==
  \E r \in DOMAIN req :
    /\ req[r].entry = "handle_confirmation"
    /\ req[r].client_type = DATABASE
    /\ req[r].query = <<"DROP TABLE t">>
    /\ req[r].has_confirmation
    /\ req[r].mode_read = SAFE
    /\ req[r].outcome = "NotAllowed"
    /\ pending_confirmations[req[r].confirmation_id] # NoEntry
    /\ pending_confirmations[req[r].confirmation_id].risk_level = HIGH

\* C32: within one handle_query request the DATABASE mode the gate decided on
\* is the mode that sets the readonly flag of the primary execution, whatever
\* set_safety_mode calls of other requests fall between the two
C32_GateModeIsExecutionMode ==
  \A r \in DOMAIN req :
    (req[r].client_type = DATABASE /\ "execute" \in {req[r].trace[i] : i \in DOMAIN req[r].trace}) =>
      (req[r].readonly <=> req[r].mode_read = SAFE)

\* C33: every statement type that needs a migration has risk MEDIUM or higher,
\* so a request the gate judged while the DATABASE mode was SAFE never reaches
\* the migration recorder, and every transaction opened for it is read-only:
\* nothing it does changes the database
C33_SafeModeOpensNoWriteTransaction ==
  /\ \A stmt_type \in DOMAIN STATEMENT_CONFIG :
       STATEMENT_CONFIG[stmt_type].needs_migration =>
         STATEMENT_CONFIG[stmt_type].risk_level >= MEDIUM
  /\ \A r \in DOMAIN req :
       (req[r].client_type = DATABASE /\ req[r].mode_read = SAFE) =>
         /\ \A i \in DOMAIN req[r].trace : req[r].trace[i] \notin {"init", "insert"}
         /\ req[r].migration = NoMigration
         /\ call[r] # NoCall =>
              /\ call[r].purpose = "execute"
              /\ call[r].readonly
              /\ \A j \in DOMAIN call[r].applied : ~IsWrite(call[r].applied[j])

\* C33 witness: a batch gated in SAFE mode runs in an open read-only transaction
C33_Witness ==
  \E r \in DOMAIN req :
    /\ req[r].client_type = DATABASE
    /\ req[r].mode_read = SAFE
    /\ call[r] # NoCall
    /\ call[r].state = "transaction"
    /\ call[r].readonly
    /\ call[r].applied = <<"SELECT 1">>

\* a batch that needs a migration has committed: its writes are in the database
SomeRecordedBatchCommitted ==
  \E query \in ExecBatches :
    /\ validate_query(query).error = "none"
    /\ HoldsMigrationStatement(query)
    /\ Writes(StatementTexts(validate_query(query).result)) # {}
    /\ Writes(StatementTexts(validate_query(query).result)) \subseteq database

\* C34: once no request is in progress, a bookkeeping row is in the database
\* only if a batch that needs a migration committed: the row of a batch whose
\* primary execution failed and was rolled back does not remain
C34_RowOnlyForCommittedBatch ==
  (\A r \in DOMAIN req : req[r].pc \in {"idle", "done"}) =>
    (Writes(CreateMigrationQuery) \cap database # {} => SomeRecordedBatchCommitted)

\* C35: a token issued for an operation of one client, redeemed through the
\* confirmation path of the other client, executes nothing: the redemption
\* fails before the gate is asked, with no contact of the database or of the
\* Management API, and the pending map keeps the entry
C35_ForeignTokenExecutesNothing ==
  [][ \A r \in DOMAIN req :
        (/\ Redeems(r)
         /\ WithinWindow(req'[r].confirmation_id)
         /\ pending_confirmations[req'[r].confirmation_id].client_type # req'[r].client_type) =>
           /\ req'[r].pc = "done"
           /\ req'[r].outcome \in {"AttributeError", "TypeError"}
           /\ ~Gated(req'[r])
           /\ NoContact(req'[r])
           /\ req'[r].sent = NoApiOp
           /\ req'[r].executed = <<>>
           /\ pending_confirmations'[req'[r].confirmation_id] =
                pending_confirmations[req'[r].confirmation_id]
    ]_vars

\* C35 witness: the token of an API operation was redeemed through the
\* DATABASE path and the redemption failed
C35_Witness ==
  \E r \in DOMAIN req :
    /\ req[r].entry = "handle_confirmation"
    /\ req[r].client_type = DATABASE
    /\ req[r].confirmation_id \in Tokens
    /\ pending_confirmations[req[r].confirmation_id] # NoEntry
    /\ pending_confirmations[req[r].confirmation_id].client_type = API
    /\ req[r].outcome = "AttributeError"

\* C36: the pool is created lazily and at most one pool is ever live: under
\* every interleaving of concurrent first requests create_pool returns one pool
\* only, self._pool holds every pool that was created (none is overwritten or
\* leaked), and the connections in use are all drawn from the same pool
C36_OnePoolEverLive ==
  /\ Cardinality(pool.created) <= 1
  /\ pool.created \subseteq {pool.current}
  /\ \A r1, r2 \in DOMAIN call :
       (call[r1] # NoCall /\ call[r2] # NoCall
          /\ call[r1].conn_pool # 0 /\ call[r2].conn_pool # 0) =>
         call[r1].conn_pool = call[r2].conn_pool

\* C37: every batch that needs a migration gets its own bookkeeping row when
\* the recording hits no fault of the database: the insert of its row adds
\* that row to the table as a new row, also when another batch was recorded
\* within the same second
C37_EveryBatchRecorded ==
  [][ \A r \in DOMAIN req :
        (req[r].pc = "insert" /\ call[r] = NoCall /\ call'[r] # NoCall
           /\ call'[r].cause \notin InsertFaults) =>
          (req[r].migration \notin database
             /\ database' = database \cup {req[r].migration}) ]_vars

\* C38: after every store (a gate answering ConfirmationRequired) and every
\* lookup (a redemption) on the confirmation store, the pending map holds no
\* entry older than 300 s
C38_NoExpiredEntryAfterAccess ==
  [][ \A r \in DOMAIN req :
        (Starts(r) /\ (req'[r].outcome = "ConfirmationRequired"
                         \/ req'[r].entry = "handle_confirmation")) =>
          \A k \in Tokens :
            pending_confirmations'[k] # NoEntry =>
              now' - pending_confirmations'[k].timestamp <= 300
    ]_vars

\* C38 witness: a token was stored 300 s after another one, which is still
\* pending at the limit of its age
C38_Witness ==
  \E r \in DOMAIN req, j \in Tokens :
    /\ req[r].outcome = "ConfirmationRequired"
    /\ req[r].issued_id \in Tokens \ {j}
    /\ pending_confirmations[req[r].issued_id] # NoEntry
    /\ pending_confirmations[req[r].issued_id].timestamp = now
    /\ pending_confirmations[j] # NoEntry
    /\ now - pending_confirmations[j].timestamp = 300

====
